---- MODULE Spec2Model ----
(***************************************************************************)
(* Immutable Adaptive Radix Tree (package art): the node shapes, the       *)
(* copy-on-write insert of a transaction and the Tree / Txn API, modelled  *)
(* over a heap of node records addressed by allocation order.              *)
(***************************************************************************)
EXTENDS Integers, Sequences, FiniteSets, TLC

(* ----------------------------- bounds ---------------------------------- *)
\* the values passed to Insert are 1..MaxVal
MaxVal == 2
\* cap on the number of node records ever allocated
MaxHeap == 5
\* cap on the number of trees committed by transactions and deletes
MaxTrees == 3
\* cap on the number of trees in the runs that derive trees with Tree.Insert
MaxChain == 4
\* cap on the number of node records in the runs that also read and delete
MaxHeapAPI == 2
\* cap on the number of node records in the runs that insert the long key
MaxHeapLong == 3
\* cap on the number of inner nodes a node test allocates
MaxNodes == 3
\* cap on the number of node records in the runs that insert the deep keys
MaxHeapDeep == 8

(* ------------------------- program constants --------------------------- *)
maxPrefixLen == 10
typLeaf == 1
typNode4 == 2
typNode16 == 3
typNode48 == 4
typNode256 == 5

\* the nil pointer and the nil interface value
NULL == 0
NoValue == 0

\* The keys the clients use: the empty key, both one-byte keys over {0, 1}
\* (0 is the NUL byte) and the two-byte keys that share the prefix 0.
Keys == {<<>>, <<0>>, <<1>>, <<0, 0>>, <<0, 1>>}

(* --------------------------- Go slice helpers -------------------------- *)
\* s[i] of a Go slice (0-based)
At(s, i) == s[i + 1]
\* s[a:b] of a Go slice
Slice(s, a, b) == SubSeq(s, a + 1, b)
\* an array of n zero values
Zeros(n) == [i \in 1..n |-> 0]
\* the builtin copy(dst, src): the new contents of dst
GoCopy(dst, src) == [i \in 1..Len(dst) |-> IF i <= Len(src) THEN src[i] ELSE dst[i]]
min(a, b) == IF a < b THEN a ELSE b

\* longestPrefix finds the length of the shared prefix of two strings
RECURSIVE longestPrefixFrom(_, _, _)
longestPrefixFrom(k1, k2, i) ==
  IF i < min(Len(k1), Len(k2))
  THEN IF At(k1, i) # At(k2, i) THEN i ELSE longestPrefixFrom(k1, k2, i + 1)
  ELSE min(Len(k1), Len(k2))
longestPrefix(k1, k2) == longestPrefixFrom(k1, k2, 0)

\* sort.Search(n, func(i) { return index[i] >= c }): binary search
RECURSIVE sortSearchLoop(_, _, _, _)
sortSearchLoop(index, c, i, j) ==
  IF i < j
  THEN LET h == (i + j) \div 2
       IN IF ~(At(index, h) >= c) THEN sortSearchLoop(index, c, h + 1, j)
          ELSE sortSearchLoop(index, c, i, h)
  ELSE i
sortSearch(index, n, c) == sortSearchLoop(index, c, 0, n)

\* insertIndex / insertChild on the slice arr[0:n] of a node's array: append
\* writes slot n in place while n < cap, then the tail is shifted up
\* insertIndex that appends the byte instead of inserting it at idx
insertIndex_append(arr, n, c, idx) ==
  IF n >= Len(arr) THEN arr ELSE [arr EXCEPT ![n + 1] = c]

insertIndex(arr, n, c, idx) ==
  IF n >= Len(arr) THEN arr
  ELSE [i \in 1..Len(arr) |->
          IF i - 1 < idx THEN arr[i]
          ELSE IF i - 1 = idx THEN c
          ELSE IF i - 1 <= n THEN arr[i - 1]
          ELSE arr[i]]
insertChild(arr, n, child, idx) ==
  IF n >= Len(arr) THEN arr
  ELSE [i \in 1..Len(arr) |->
          IF i - 1 < idx THEN arr[i]
          ELSE IF i - 1 = idx THEN child
          ELSE IF i - 1 <= n THEN arr[i - 1]
          ELSE arr[i]]

\* removeChild / removeByteIndex on the slice arr[0:n] of a node's array: the
\* tail is shifted down over slot idx and the last slot of the slice is zeroed
\* mutation of removeChild on a slice: the tail is not shifted down
removeChildSlice_none(arr, n, idx) == arr

removeChildSlice(arr, n, idx) ==
  [i \in 1..Len(arr) |->
     IF i - 1 < idx THEN arr[i]
     ELSE IF i - 1 < n - 1 THEN arr[i + 1]
     ELSE IF i - 1 = n - 1 THEN NULL
     ELSE arr[i]]
removeByteIndex(bs, n, idx) ==
  [i \in 1..Len(bs) |->
     IF i - 1 < idx THEN bs[i]
     ELSE IF i - 1 < n - 1 THEN bs[i + 1]
     ELSE IF i - 1 = n - 1 THEN 0
     ELSE bs[i]]

(* ----------------------------- node records ---------------------------- *)
\* One record shape for all five kinds; a field a kind does not have is
\* empty.  leaf is the inner leaf pointer, children hold heap addresses.
leafNode(id, k, v) ==
  [typ |-> typLeaf, id |-> id, key |-> k, value |-> v, leaf |-> NULL,
   prefixLen |-> 0, nChildren |-> 0, prefix |-> <<>>, index |-> <<>>,
   children |-> <<>>]
innerNode(typ, id, nIndex, nChildSlots) ==
  [typ |-> typ, id |-> id, key |-> <<>>, value |-> NoValue, leaf |-> NULL,
   prefixLen |-> 0, nChildren |-> 0, prefix |-> Zeros(maxPrefixLen),
   index |-> Zeros(nIndex), children |-> Zeros(nChildSlots)]
node4(id) == innerNode(typNode4, id, 4, 4)
node16(id) == innerNode(typNode16, id, 16, 16)
node48(id) == innerNode(typNode48, id, 256, 48)
node256(id) == innerNode(typNode256, id, 0, 256)

\* copyInnerNodeHeader copies all the fields except id and ref
copyInnerNodeHeader(dst, src) ==
  [dst EXCEPT !.leaf = src.leaf, !.nChildren = src.nChildren,
              !.prefixLen = src.prefixLen, !.prefix = src.prefix]

(* ------------------------- transaction context ------------------------- *)
\* c = [heap, maxRootID, maxSnapID, mutateSet]: what insert reads and writes.
\* An allocation returns [c |-> context after, a |-> address of the node].
\* mutation of nextID: the counter is not advanced
nextID_reuse(c) == c

nextID(c) == [c EXCEPT !.maxRootID = @ + 1]
\* a new node: the record n with id: t.nextID(), at the next address
alloc(c, n) ==
  LET c1 == nextID(c)
  IN [c |-> [c1 EXCEPT !.heap = Append(@, [n EXCEPT !.id = c1.maxRootID])],
      a |-> Len(c.heap) + 1]
newNode4(c) == alloc(c, node4(0))
\* newNode16 that takes no new identifier
newNode16_staleID(c) ==
  [c |-> [c EXCEPT !.heap = Append(@, node16(c.maxRootID))], a |-> Len(c.heap) + 1]
newNode16(c) == alloc(c, node16(0))
newNode48(c) == alloc(c, node48(0))
newNode256(c) == alloc(c, node256(0))
newLeafNode(c, k, v) == alloc(c, leafNode(0, k, v))
\* write node record n at address a
store(c, a, n) == [c EXCEPT !.heap[a] = n]

\* mutation of discard: the identifier is recorded whatever it is
discard_any(c, id) == [c EXCEPT !.mutateSet = @ \cup {id}]

discard(c, id) ==
  IF id > c.maxSnapID THEN c ELSE [c EXCEPT !.mutateSet = @ \cup {id}]

(* -------------------------------- node4 -------------------------------- *)
\* Every shape operation takes the context c and the address a of the node;
\* those that may write or allocate return [c |-> context, a |-> node].
RECURSIVE node4_indexOfFrom(_, _, _)
node4_indexOfFrom(n, c, i) ==
  IF i < n.nChildren
  THEN IF At(n.index, i) = c THEN i ELSE node4_indexOfFrom(n, c, i + 1)
  ELSE -1
node4_indexOf(n, c) == node4_indexOfFrom(n, c, 0)

\* mutation of node4.findChild: byte 0x00 ends a key and is no edge
node4_findChild_nul(n, c) ==
  LET idx == node4_indexOf(n, c)
  IN IF idx > -1 /\ c # 0 THEN At(n.children, idx) ELSE NULL

node4_findChild(n, c) ==
  LET idx == node4_indexOf(n, c)
  IN IF idx > -1 THEN At(n.children, idx) ELSE NULL

\* the slot search of the fast path: one past the last leading entry <= c
RECURSIVE node4_insertPos(_, _, _, _)
node4_insertPos(n, c, i, idx) ==
  IF i < n.nChildren
  THEN IF At(n.index, i) > c THEN idx ELSE node4_insertPos(n, c, i + 1, i + 1)
  ELSE idx

\* the copy loop of the grow path, over all four slots of n.index
RECURSIVE node4_growLoop(_, _, _, _, _, _, _)
node4_growLoop(n, n16, c, child, childIdx, n16Idx, inserted) ==
  IF childIdx >= 4 THEN [n16 EXCEPT !.nChildren = n16Idx]
  ELSE LET childC == At(n.index, childIdx)
           ins == ~inserted /\ c < childC
           m1 == IF ins
                 THEN [n16 EXCEPT !.index[n16Idx + 1] = c, !.children[n16Idx + 1] = child]
                 ELSE n16
           i1 == IF ins THEN n16Idx + 1 ELSE n16Idx
           m2 == [m1 EXCEPT !.index[i1 + 1] = childC,
                            !.children[i1 + 1] = At(n.children, childIdx)]
       IN node4_growLoop(n, m2, c, child, childIdx + 1, i1 + 1, inserted \/ ins)

node4_addChild(c, a, b, child) ==
  LET n == c.heap[a]
  IN IF n.nChildren < 4
     THEN LET idx == node4_insertPos(n, b, 0, 0)
          IN [c |-> store(c, a, [n EXCEPT
                       !.index = insertIndex(n.index, n.nChildren, b, idx),
                       !.children = insertChild(n.children, n.nChildren, child, idx),
                       !.nChildren = n.nChildren + 1]),
              a |-> a]
     ELSE LET r == newNode16(c)
              n16 == copyInnerNodeHeader(r.c.heap[r.a], n)
          IN [c |-> store(r.c, r.a, node4_growLoop(n, n16, b, child, 0, 0, FALSE)),
              a |-> r.a]

\* a removeChild returns [c |-> context, a |-> node, panic |-> whether the
\* call panicked (index out of range)]
node4_removeChild(c, a, b) ==
  LET n == c.heap[a]
      idx == node4_indexOf(n, b)
  IN IF idx < 0 THEN [c |-> c, a |-> a, panic |-> FALSE]
     ELSE [c |-> store(c, a, [n EXCEPT
                   !.index = removeByteIndex(n.index, n.nChildren, idx),
                   !.children = removeChildSlice(n.children, n.nChildren, idx),
                   !.nChildren = n.nChildren - 1]),
           a |-> a, panic |-> FALSE]

node4_replaceChild(c, a, b, child) ==
  LET n == c.heap[a]
      idx == node4_indexOf(n, b)
  IN IF idx < 0 THEN [c |-> c, a |-> a]
     ELSE [c |-> store(c, a, [n EXCEPT !.children[idx + 1] = child]), a |-> a]

node4_minChild(n) == IF n.nChildren > 0 THEN At(n.children, 0) ELSE NULL

node4_maxChild(n) ==
  IF n.nChildren > 0 THEN At(n.children, n.nChildren - 1) ELSE NULL

RECURSIVE node4_lowerBoundFrom(_, _, _)
node4_lowerBoundFrom(n, c, i) ==
  IF i < n.nChildren
  THEN IF At(n.index, i) < c THEN node4_lowerBoundFrom(n, c, i + 1)
       ELSE At(n.children, i)
  ELSE NULL
node4_lowerBound(n, c) ==
  IF n.nChildren = 0 THEN NULL ELSE node4_lowerBoundFrom(n, c, 0)

\* mutation of node4.copy: the node itself is returned
node4_copy_alias(c, a) == [c |-> c, a |-> a]

node4_copy(c, a) ==
  LET n == c.heap[a]
      r == newNode4(c)
      nn == copyInnerNodeHeader(r.c.heap[r.a], n)
  IN [c |-> store(r.c, r.a, [nn EXCEPT !.index = GoCopy(nn.index, n.index),
                                       !.children = GoCopy(nn.children, n.children)]),
      a |-> r.a]

(* -------------------------------- node16 ------------------------------- *)
node16_indexOf(n, c) ==
  LET idx == sortSearch(n.index, n.nChildren, c)
  IN IF idx < n.nChildren /\ At(n.index, idx) = c THEN idx ELSE -1

node16_findChild(n, c) ==
  LET idx == node16_indexOf(n, c)
  IN IF idx > -1 THEN At(n.children, idx) ELSE NULL

\* the copy loop of the grow path, over all sixteen slots of n.index
RECURSIVE node16_growLoop(_, _, _)
node16_growLoop(n, n48, childIdx) ==
  IF childIdx >= 16 THEN n48
  ELSE LET childC == At(n.index, childIdx)
           idx == n48.nChildren
       IN node16_growLoop(n,
            [n48 EXCEPT !.index[childC + 1] = (idx + 1) % 256,
                        !.children[idx + 1] = At(n.children, childIdx),
                        !.nChildren = idx + 1],
            childIdx + 1)

node16_addChild(c, a, b, child) ==
  LET n == c.heap[a]
  IN IF n.nChildren < 16
     THEN LET idx == sortSearch(n.index, n.nChildren, b)
          IN [c |-> store(c, a, [n EXCEPT
                       !.index = insertIndex(n.index, n.nChildren, b, idx),
                       !.children = insertChild(n.children, n.nChildren, child, idx),
                       !.nChildren = n.nChildren + 1]),
              a |-> a]
     ELSE LET r == newNode48(c)
              n0 == [r.c.heap[r.a] EXCEPT !.prefixLen = n.prefixLen,
                                          !.prefix = GoCopy(@, n.prefix)]
              n1 == node16_growLoop(n, n0, 0)
          IN [c |-> store(r.c, r.a,
                      [n1 EXCEPT !.index[b + 1] = (n1.nChildren + 1) % 256,
                                 !.children[n1.nChildren + 1] = child,
                                 !.nChildren = n1.nChildren + 1]),
              a |-> r.a]

\* the copy loop of the shrink path, over n.index[0:n.nChildren]
RECURSIVE node16_shrinkLoop(_, _, _, _)
node16_shrinkLoop(n, n4, c, childIdx) ==
  IF childIdx >= n.nChildren THEN [n |-> n4, panic |-> FALSE]
  ELSE IF At(n.index, childIdx) = c THEN node16_shrinkLoop(n, n4, c, childIdx + 1)
  ELSE IF n4.nChildren >= 4 THEN [n |-> n4, panic |-> TRUE]
  ELSE node16_shrinkLoop(n,
         [n4 EXCEPT !.index[n4.nChildren + 1] = At(n.index, childIdx),
                    !.children[n4.nChildren + 1] = At(n.children, childIdx),
                    !.nChildren = n4.nChildren + 1],
         c, childIdx + 1)

\* the shrink path, the tail: the children are copied into the new node4 r.a
node16_removeChild_shrink(r, n, b) ==
  LET n0 == [r.c.heap[r.a] EXCEPT !.prefixLen = n.prefixLen,
                                  !.prefix = GoCopy(@, n.prefix)]
      l == node16_shrinkLoop(n, n0, b, 0)
  IN [c |-> store(r.c, r.a, l.n), a |-> r.a, panic |-> l.panic]

\* node16.removeChild that keeps the node16 down to 4 children
node16_removeChild_keep(c, a, b) ==
  LET n == c.heap[a]
      idx == node16_indexOf(n, b)
  IN IF idx < 0 THEN [c |-> c, a |-> a, panic |-> FALSE]
     ELSE IF n.nChildren > 4
     THEN [c |-> store(c, a, [n EXCEPT
                   !.index = removeByteIndex(n.index, n.nChildren, idx),
                   !.children = removeChildSlice(n.children, n.nChildren, idx),
                   !.nChildren = n.nChildren - 1]),
           a |-> a, panic |-> FALSE]
     ELSE node16_removeChild_shrink(newNode4(c), n, b)

node16_removeChild(c, a, b) ==
  LET n == c.heap[a]
      idx == node16_indexOf(n, b)
  IN IF idx < 0 THEN [c |-> c, a |-> a, panic |-> FALSE]
     ELSE IF n.nChildren > 5
     THEN [c |-> store(c, a, [n EXCEPT
                   !.index = removeByteIndex(n.index, n.nChildren, idx),
                   !.children = removeChildSlice(n.children, n.nChildren, idx),
                   !.nChildren = n.nChildren - 1]),
           a |-> a, panic |-> FALSE]
     ELSE node16_removeChild_shrink(newNode4(c), n, b)

node16_replaceChild(c, a, b, child) ==
  LET n == c.heap[a]
      idx == node16_indexOf(n, b)
  IN IF idx < 0 THEN [c |-> c, a |-> a]
     ELSE [c |-> store(c, a, [n EXCEPT !.children[idx + 1] = child]), a |-> a]

node16_minChild(n) == IF n.nChildren > 0 THEN At(n.children, 0) ELSE NULL

\* mutation of node16.maxChild: the first child is returned
node16_maxChild_first(n) ==
  IF n.nChildren > 0 THEN At(n.children, 0) ELSE NULL

node16_maxChild(n) ==
  IF n.nChildren > 0 THEN At(n.children, n.nChildren - 1) ELSE NULL

RECURSIVE node16_lowerBoundFrom(_, _, _)
node16_lowerBoundFrom(n, c, i) ==
  IF i < n.nChildren
  THEN IF At(n.index, i) < c THEN node16_lowerBoundFrom(n, c, i + 1)
       ELSE At(n.children, i)
  ELSE NULL
node16_lowerBound(n, c) ==
  IF n.nChildren = 0 THEN NULL ELSE node16_lowerBoundFrom(n, c, 0)

node16_copy(c, a) ==
  LET n == c.heap[a]
      r == newNode16(c)
      nn == copyInnerNodeHeader(r.c.heap[r.a], n)
  IN [c |-> store(r.c, r.a, [nn EXCEPT !.index = GoCopy(nn.index, n.index),
                                       !.children = GoCopy(nn.children, n.children)]),
      a |-> r.a]

(* -------------------------------- node48 ------------------------------- *)
node48_indexOf(n, c) == At(n.index, c) - 1

node48_findChild(n, c) ==
  LET idx == node48_indexOf(n, c)
  IN IF idx > -1 THEN At(n.children, idx) ELSE NULL

\* the copy loop of the grow path, over the 256 index entries: every byte
\* with an offset gets its child, and nChildren counts them
node48_growLoop(n, n256) ==
  [n256 EXCEPT
     !.children = [i \in 1..256 |->
                     IF n.index[i] > 0 THEN At(n.children, n.index[i] - 1) ELSE @[i]],
     !.nChildren = (@ + Cardinality({i \in 1..256 : n.index[i] > 0})) % 65536]

node48_addChild(c, a, b, child) ==
  LET n == c.heap[a]
  IN IF n.nChildren < 48
     THEN LET idx == n.nChildren
          IN [c |-> store(c, a, [n EXCEPT !.index[b + 1] = (idx + 1) % 256,
                                          !.children[idx + 1] = child,
                                          !.nChildren = idx + 1]),
              a |-> a]
     ELSE LET r == newNode256(c)
              n0 == [r.c.heap[r.a] EXCEPT !.prefixLen = n.prefixLen,
                                          !.prefix = GoCopy(@, n.prefix)]
              n1 == node48_growLoop(n, n0)
          IN [c |-> store(r.c, r.a, [n1 EXCEPT !.children[b + 1] = child,
                                               !.nChildren = @ + 1]),
              a |-> r.a]

\* the copy loop of the shrink path, over the 256 index entries: the child
\* of byte childC is stored at n16.children[childC], which is out of range
\* from childC = 16 on; index is not written
node48_shrinkLoop(n, n16, c) ==
  LET copied == {childC \in 0..255 : At(n.index, childC) > 0 /\ childC # c}
  IN IF \E childC \in copied : childC >= 16 THEN [n |-> n16, panic |-> TRUE]
     ELSE [n |-> [n16 EXCEPT
                    !.children = [i \in 1..16 |->
                                    IF i - 1 \in copied
                                    THEN At(n.children, n.index[i] - 1) ELSE @[i]],
                    !.nChildren = @ + Cardinality(copied)],
           panic |-> FALSE]

\* the shrink path, the tail: the children are copied into the new node16 r.a
node48_removeChild_shrink(r, n, b) ==
  LET n0 == [r.c.heap[r.a] EXCEPT !.prefixLen = n.prefixLen,
                                  !.prefix = GoCopy(@, n.prefix)]
      l == node48_shrinkLoop(n, n0, b)
  IN [c |-> store(r.c, r.a, l.n), a |-> r.a, panic |-> l.panic]

node48_removeChild(c, a, b) ==
  LET n == c.heap[a]
      idx == node48_indexOf(n, b)
      oldIdx == At(n.index, b)
  IN IF idx < 0 THEN [c |-> c, a |-> a, panic |-> FALSE]
     ELSE IF n.nChildren > 16 + 1
     THEN [c |-> store(c, a, [n EXCEPT
                   !.index = [i \in 1..256 |->
                                IF i - 1 = b THEN 0
                                ELSE IF n.index[i] > oldIdx THEN n.index[i] - 1
                                ELSE n.index[i]],
                   !.children = removeChildSlice(n.children, n.nChildren, idx),
                   !.nChildren = n.nChildren - 1]),
           a |-> a, panic |-> FALSE]
     ELSE node48_removeChild_shrink(newNode16(c), n, b)

node48_replaceChild(c, a, b, child) ==
  LET n == c.heap[a]
      idx == node48_indexOf(n, b)
  IN IF idx < 0 THEN [c |-> c, a |-> a]
     ELSE [c |-> store(c, a, [n EXCEPT !.children[idx + 1] = child]), a |-> a]

node48_minChild(n) ==
  LET present == {i \in 0..255 : At(n.index, i) > 0}
  IN IF present = {} THEN NULL
     ELSE LET i == CHOOSE x \in present : \A y \in present : x <= y
          IN At(n.children, At(n.index, i) - 1)

node48_maxChild(n) ==
  LET present == {i \in 0..255 : At(n.index, i) > 0}
  IN IF present = {} THEN NULL
     ELSE LET i == CHOOSE x \in present : \A y \in present : x >= y
          IN At(n.children, At(n.index, i) - 1)

node48_lowerBound(n, c) ==
  LET present == {i \in c..255 : At(n.index, i) > 0}
  IN IF n.nChildren = 0 \/ present = {} THEN NULL
     ELSE LET i == CHOOSE x \in present : \A y \in present : x <= y
          IN At(n.children, At(n.index, i) - 1)

\* node48.copy that leaves the index of the copy empty
node48_copy_noIndex(c, a) ==
  LET n == c.heap[a]
      r == newNode48(c)
      nn == copyInnerNodeHeader(r.c.heap[r.a], n)
  IN [c |-> store(r.c, r.a, [nn EXCEPT !.children = GoCopy(nn.children, n.children)]),
      a |-> r.a]

node48_copy(c, a) ==
  LET n == c.heap[a]
      r == newNode48(c)
      nn == copyInnerNodeHeader(r.c.heap[r.a], n)
  IN [c |-> store(r.c, r.a, [nn EXCEPT !.index = GoCopy(nn.index, n.index),
                                       !.children = GoCopy(nn.children, n.children)]),
      a |-> r.a]

(* -------------------------------- node256 ------------------------------ *)
node256_indexOf(n, c) == c

node256_findChild(n, c) == At(n.children, c)

node256_addChild(c, a, b, child) ==
  LET n == c.heap[a]
  IN [c |-> store(c, a, [n EXCEPT !.children[b + 1] = child,
                                  !.nChildren = (@ + 1) % 65536]),
      a |-> a]

\* the copy loop of the shrink path, over the 256 children: the children
\* other than c's take the slots of n48 in byte order, and a 49th is out of
\* range
node256_shrinkLoop(n, n48, c) ==
  LET copied == {childC \in 0..255 : At(n.children, childC) # NULL /\ childC # c}
      slot(childC) == Cardinality({x \in copied : x < childC})
  IN IF Cardinality(copied) > 48 THEN [n |-> n48, panic |-> TRUE]
     ELSE [n |-> [n48 EXCEPT
                    !.index = [i \in 1..256 |->
                                 IF i - 1 \in copied THEN slot(i - 1) + 1 ELSE @[i]],
                    !.children = [j \in 1..48 |->
                                    IF j <= Cardinality(copied)
                                    THEN At(n.children,
                                            CHOOSE x \in copied : slot(x) = j - 1)
                                    ELSE @[j]],
                    !.nChildren = Cardinality(copied)],
           panic |-> FALSE]

\* the shrink path, the tail: the children are copied into the new node48 r.a
node256_removeChild_shrink(r, n, b) ==
  LET n0 == [r.c.heap[r.a] EXCEPT !.prefixLen = n.prefixLen,
                                  !.prefix = GoCopy(@, n.prefix)]
      l == node256_shrinkLoop(n, n0, b)
  IN [c |-> store(r.c, r.a, l.n), a |-> r.a, panic |-> l.panic]

node256_removeChild(c, a, b) ==
  LET n == c.heap[a]
      idx == node256_indexOf(n, b)
  IN IF idx < 0 THEN [c |-> c, a |-> a, panic |-> FALSE]
     ELSE IF n.nChildren > 48
     THEN [c |-> store(c, a, [n EXCEPT !.children[b + 1] = NULL,
                                       !.nChildren = (@ + 65535) % 65536]),
           a |-> a, panic |-> FALSE]
     ELSE node256_removeChild_shrink(newNode48(c), n, b)

node256_replaceChild(c, a, b, child) ==
  LET n == c.heap[a]
  IN [c |-> store(c, a, [n EXCEPT !.children[b + 1] = child]), a |-> a]

node256_minChild(n) ==
  LET present == {i \in 0..255 : At(n.children, i) # NULL}
  IN IF present = {} THEN NULL
     ELSE At(n.children, CHOOSE x \in present : \A y \in present : x <= y)

node256_maxChild(n) ==
  LET present == {i \in 0..255 : At(n.children, i) # NULL}
  IN IF present = {} THEN NULL
     ELSE At(n.children, CHOOSE x \in present : \A y \in present : x >= y)

node256_lowerBound(n, c) == IF n.nChildren = 0 THEN NULL ELSE NULL

node256_copy(c, a) ==
  LET n == c.heap[a]
      r == newNode256(c)
      nn == copyInnerNodeHeader(r.c.heap[r.a], n)
  IN [c |-> store(r.c, r.a, [nn EXCEPT !.children = GoCopy(nn.children, n.children)]),
      a |-> r.a]

(* ------------------------ nodeHeader dispatch -------------------------- *)
\* The switch on n.typ of each nodeHeader method.  The typLeaf arm of the
\* writing methods returns nil; no caller reaches it with a leaf.
innerLeaf(n) == IF n.typ = typLeaf THEN NULL ELSE n.leaf

setInnerLeaf(c, a, leaf) == store(c, a, [c.heap[a] EXCEPT !.leaf = leaf])

findChild(n, b) ==
  CASE n.typ = typLeaf -> NULL
    [] n.typ = typNode4 -> node4_findChild(n, b)
    [] n.typ = typNode16 -> node16_findChild(n, b)
    [] n.typ = typNode48 -> node48_findChild(n, b)
    [] n.typ = typNode256 -> node256_findChild(n, b)

addChild(c, a, b, child) ==
  CASE c.heap[a].typ = typLeaf -> [c |-> c, a |-> NULL]
    [] c.heap[a].typ = typNode4 -> node4_addChild(c, a, b, child)
    [] c.heap[a].typ = typNode16 -> node16_addChild(c, a, b, child)
    [] c.heap[a].typ = typNode48 -> node48_addChild(c, a, b, child)
    [] c.heap[a].typ = typNode256 -> node256_addChild(c, a, b, child)

removeChild(c, a, b) ==
  CASE c.heap[a].typ = typLeaf -> [c |-> c, a |-> NULL, panic |-> FALSE]
    [] c.heap[a].typ = typNode4 -> node4_removeChild(c, a, b)
    [] c.heap[a].typ = typNode16 -> node16_removeChild(c, a, b)
    [] c.heap[a].typ = typNode48 -> node48_removeChild(c, a, b)
    [] c.heap[a].typ = typNode256 -> node256_removeChild(c, a, b)

replaceChild(c, a, b, child) ==
  CASE c.heap[a].typ = typLeaf -> [c |-> c, a |-> NULL]
    [] c.heap[a].typ = typNode4 -> node4_replaceChild(c, a, b, child)
    [] c.heap[a].typ = typNode16 -> node16_replaceChild(c, a, b, child)
    [] c.heap[a].typ = typNode48 -> node48_replaceChild(c, a, b, child)
    [] c.heap[a].typ = typNode256 -> node256_replaceChild(c, a, b, child)

minChild(n) ==
  CASE n.typ = typLeaf -> NULL
    [] n.typ = typNode4 -> node4_minChild(n)
    [] n.typ = typNode16 -> node16_minChild(n)
    [] n.typ = typNode48 -> node48_minChild(n)
    [] n.typ = typNode256 -> node256_minChild(n)

maxChild(n) ==
  CASE n.typ = typLeaf -> NULL
    [] n.typ = typNode4 -> node4_maxChild(n)
    [] n.typ = typNode16 -> node16_maxChild(n)
    [] n.typ = typNode48 -> node48_maxChild(n)
    [] n.typ = typNode256 -> node256_maxChild(n)

lowerBound(n, c) ==
  CASE n.typ = typLeaf -> NULL
    [] n.typ = typNode4 -> node4_lowerBound(n, c)
    [] n.typ = typNode16 -> node16_lowerBound(n, c)
    [] n.typ = typNode48 -> node48_lowerBound(n, c)
    [] n.typ = typNode256 -> node256_lowerBound(n, c)

copy(c, a) ==
  CASE c.heap[a].typ = typLeaf -> [c |-> c, a |-> NULL]
    [] c.heap[a].typ = typNode4 -> node4_copy(c, a)
    [] c.heap[a].typ = typNode16 -> node16_copy(c, a)
    [] c.heap[a].typ = typNode48 -> node48_copy(c, a)
    [] c.heap[a].typ = typNode256 -> node256_copy(c, a)

\* setPrefix: copy up to maxPrefixLen bytes, the length is the number copied
setPrefix(c, a, p) ==
  LET n == c.heap[a]
  IN store(c, a, [n EXCEPT !.prefix = GoCopy(n.prefix, p),
                           !.prefixLen = min(Len(n.prefix), Len(p))])

\* leftTrimPrefix removes l bytes from the front of the prefix, in place
leftTrimPrefix(c, a, l) ==
  IF l < 1 THEN c
  ELSE LET n == c.heap[a]
           l1 == IF l > n.prefixLen THEN n.prefixLen ELSE l
           newLen == n.prefixLen - l1
       IN store(c, a, [n EXCEPT
                  !.prefix = [i \in 1..Len(n.prefix) |->
                                IF i <= newLen THEN n.prefix[l1 + i] ELSE n.prefix[i]],
                  !.prefixLen = newLen])

\* prefix returns the effective prefix: the inline bytes when they hold it
\* all, else the first prefixLen bytes of the key of the minimum child taken
\* as a leaf
prefix(heap, n) ==
  IF n.prefixLen <= maxPrefixLen
  THEN Slice(n.prefix, 0, n.prefixLen)
  ELSE Slice(heap[minChild(n)].key, 0, n.prefixLen)

(* ------------------------------ Txn.insert ----------------------------- *)
\* mutation of copyIfNeeded: the node is never copied
copyIfNeeded_inPlace(c, a) == [c |-> c, a |-> a]

\* mutation of copyIfNeeded: a node made in the transaction is copied too
copyIfNeeded_always(c, a) ==
  copy([discard(c, c.heap[a].id) EXCEPT !.copied = Append(@, c.heap[a].id)], a)

\* c.copied (a history variable, not a field of Txn) lists the identifiers
\* of the nodes copied so far in the transaction
copyIfNeeded(c, a) ==
  IF c.heap[a].id <= c.maxSnapID
  THEN copy([discard(c, c.heap[a].id) EXCEPT !.copied = Append(@, c.heap[a].id)], a)
  ELSE [c |-> c, a |-> a]

\* What insert returns: the context after, the node that replaces n in its
\* parent, the old value and the replaced flag.  panic marks a run-time
\* panic (index or slice bounds out of range); c is then the context at the
\* point of the panic and the other fields are not returned to anyone.
result(c, n, old, replaced) ==
  [c |-> c, n |-> n, old |-> old, replaced |-> replaced, panic |-> FALSE]
panicked(c) ==
  [c |-> c, n |-> NULL, old |-> NoValue, replaced |-> FALSE, panic |-> TRUE]

\* insert returns the node p.a in the context p.c
inserted(p, old, replaced) == result(p.c, p.a, old, replaced)

\* n is a leaf, the tail: the new leaf is made and put under the split node
\* s1.a, as its inner leaf when the key ends at the split point
insertAtLeaf_newLeaf(s1, k, v, split) ==
  LET l == newLeafNode(s1.c, k, v)
  IN inserted(IF split = Len(k)
              THEN [c |-> setInnerLeaf(l.c, s1.a, l.a), a |-> s1.a]
              ELSE addChild(l.c, s1.a, At(k, split), l.a),
              NoValue, FALSE)

\* n is a leaf with another key: the new node4 s.a gets the common prefix
\* k[offset:split] and the old leaf, as its inner leaf when the old key ends
\* at the split point
insertAtLeaf_split(s, n, k, v, offset, split) ==
  LET leaf == s.c.heap[n]
      c1 == setPrefix(s.c, s.a, Slice(k, offset, split))
  IN insertAtLeaf_newLeaf(IF split = Len(leaf.key)
                          THEN [c |-> setInnerLeaf(c1, s.a, n), a |-> s.a]
                          ELSE addChild(c1, s.a, At(leaf.key, split), n),
                          k, v, split)

\* n is a leaf (tree.go:359-402)
insertAtLeaf(c, n, k, v, offset) ==
  LET leaf == c.heap[n]
  IN IF leaf.key = k
     THEN LET r == newLeafNode(c, k, v)
          IN result(discard(r.c, leaf.id), r.a, leaf.value, TRUE)
     ELSE IF offset > Len(leaf.key) THEN panicked(newNode4(c).c)
     ELSE insertAtLeaf_split(newNode4(c), n, k, v, offset,
            offset + longestPrefix(Slice(leaf.key, offset, Len(leaf.key)),
                                   Slice(k, offset, Len(k))))

\* the key is exhausted at inner node n, the tail: the leaf l is set on the
\* copy nn.a, then n is discarded and the inner leaf is read from n
insertInnerLeaf_set(nn, n, l) ==
  LET c1 == setInnerLeaf(nn.c, nn.a, l)
      c2 == discard(c1, c1.heap[n].id)
      oldLeaf == innerLeaf(c2.heap[n])
  IN IF oldLeaf # NULL
     THEN result(discard(c2, c2.heap[oldLeaf].id), nn.a, c2.heap[oldLeaf].value, TRUE)
     ELSE result(c2, nn.a, NoValue, FALSE)

\* the key is exhausted at inner node n (tree.go:404-418)
insertInnerLeaf(c, n, k, v) ==
  LET l == newLeafNode(c, k, v)
  IN insertInnerLeaf_set(copyIfNeeded(l.c, n), n, l.a)

\* the prefix split, the tail: the new leaf is made and added to the split
\* node s1.a under k[lcp]
insertSplit_newLeaf(s1, k, v, lcp) ==
  LET l == newLeafNode(s1.c, k, v)
  IN IF lcp >= Len(k) THEN panicked(l.c)
     ELSE inserted(addChild(l.c, s1.a, At(k, lcp), l.a), NoValue, FALSE)

\* the prefix split, the middle: the copy nn.a of n is trimmed and added to
\* the split node s under prefix[lcp].  The slice prefix aliases the prefix
\* array of n, which leftTrimPrefix changes in place when n is not copied, so
\* prefix[lcp] is read from n's array as it is after the trim.
insertSplit_trim(nn, s, n, k, v, pfx, lcp) ==
  LET c2 == leftTrimPrefix(nn.c, nn.a, lcp % 65536)
      aliased == IF nn.c.heap[n].prefixLen <= maxPrefixLen
                 THEN c2.heap[n].prefix ELSE pfx
  IN insertSplit_newLeaf(addChild(c2, s, At(aliased, lcp), nn.a), k, v, lcp)

\* the prefix of inner node n matches only lcp < len(prefix) bytes
\* (tree.go:432-442)
insertSplit(c, n, k, v, offset, pfx, lcp) ==
  LET s == newNode4(c)
  IN insertSplit_trim(copyIfNeeded(setPrefix(s.c, s.a, Slice(k, offset, offset + lcp)), n),
                      s.a, n, k, v, pfx, lcp)

RECURSIVE insert(_, _, _, _, _)

\* the RECURSE label, the child exists: it is replaced in the copy nn.a
insertRecurse_replace(nn, b, r) ==
  inserted(replaceChild(nn.c, nn.a, b, r.n), r.old, r.replaced)

\* the RECURSE label, no child: the leaf l is added to the copy nn.a
insertRecurse_add(nn, n, b, l) ==
  LET n2 == addChild(nn.c, nn.a, b, l)
  IN result(discard(n2.c, n2.c.heap[n].id), n2.a, NoValue, FALSE)

\* the RECURSE label (tree.go:445-463)
insertRecurse(c, n, k, v, offset) ==
  IF offset >= Len(k) THEN panicked(c)
  ELSE LET child == findChild(c.heap[n], At(k, offset))
       IN IF child # NULL
          THEN LET r == insert(c, child, k, v, offset + 1)
               IN IF r.panic THEN r
                  ELSE insertRecurse_replace(copyIfNeeded(r.c, n), At(k, offset), r)
          ELSE LET l == newLeafNode(c, k, v)
               IN insertRecurse_add(copyIfNeeded(l.c, n), n, At(k, offset), l.a)

insert(c, n, k, v, offset) ==
  IF n = NULL
  THEN LET l == newLeafNode(c, k, v) IN result(l.c, l.a, NoValue, FALSE)
  ELSE IF c.heap[n].typ = typLeaf THEN insertAtLeaf(c, n, k, v, offset)
  ELSE IF offset >= Len(k) THEN insertInnerLeaf(c, n, k, v)
  ELSE LET pfx == prefix(c.heap, c.heap[n])
       IN IF Len(pfx) > 0
          THEN LET lcp == longestPrefix(Slice(k, offset, Len(k)), pfx)
               IN IF lcp >= Len(pfx)
                  THEN insertRecurse(c, n, k, v, offset + Len(pfx))
                  ELSE insertSplit(c, n, k, v, offset, pfx, lcp)
          ELSE insertRecurse(c, n, k, v, offset)

(* ---------------------------- Tree and Txn ----------------------------- *)
\* New returns an empty Tree
New == [root |-> NULL, maxID |-> 0, size |-> 0]

Tree_Len(t) == t.size

\* Txn starts a new transaction; state is the caller's view of the handle:
\* "open", "committed" once Commit returned, "panicked" once an Insert
\* panicked, "none" before any transaction was started
Tree_Txn(t) ==
  [state |-> "open", maxRootID |-> t.maxID, root |-> t.root,
   maxSnapID |-> t.maxID, snap |-> t.root, size |-> t.size, mutateSet |-> {},
   copied |-> <<>>]

NoTxn ==
  [state |-> "none", maxRootID |-> 0, root |-> NULL, maxSnapID |-> 0,
   snap |-> NULL, size |-> 0, mutateSet |-> {}, copied |-> <<>>]

Tree_Get(t, k) == [value |-> NoValue, ok |-> FALSE]

context(h, t) ==
  [heap |-> h, maxRootID |-> t.maxRootID, maxSnapID |-> t.maxSnapID,
   mutateSet |-> t.mutateSet, copied |-> t.copied]

\* Txn.Insert, the assignment of what insert returned: t.root is assigned
\* only when insert returns
Txn_Insert_assign(t, r) ==
  [heap |-> r.c.heap,
   txn |-> IF r.panic
           THEN [t EXCEPT !.maxRootID = r.c.maxRootID, !.mutateSet = r.c.mutateSet,
                          !.copied = r.c.copied, !.state = "panicked"]
           ELSE [t EXCEPT !.maxRootID = r.c.maxRootID, !.mutateSet = r.c.mutateSet,
                          !.copied = r.c.copied, !.root = r.n],
   old |-> r.old, ok |-> r.replaced, panic |-> r.panic]

Txn_Insert(h, t, k, v) == Txn_Insert_assign(t, insert(context(h, t), t.root, k, v, 0))

\* mutation of Txn.Delete: the root is dropped
Txn_Delete_clear(t, k) == [txn |-> [t EXCEPT !.root = NULL], old |-> NoValue, ok |-> FALSE]

Txn_Delete(t, k) == [txn |-> t, old |-> NoValue, ok |-> FALSE]

Txn_DeletePrefix(t, p) == [txn |-> t, ok |-> FALSE]

Txn_Get(t, k) == [value |-> NoValue, ok |-> FALSE]

\* Notify does nothing
Txn_Notify(t) == t

Txn_CommitOnly(t) == [root |-> t.root, maxID |-> t.maxRootID, size |-> t.size]

Txn_Commit(t) == Txn_CommitOnly(Txn_Notify(t))

\* Tree.Insert / Delete / DeletePrefix: a transaction of one operation
Tree_Insert_commit(r) ==
  [heap |-> r.heap, tree |-> Txn_Commit(r.txn), txn |-> r.txn,
   old |-> r.old, ok |-> r.ok, panic |-> r.panic]

Tree_Insert(h, t, k, v) == Tree_Insert_commit(Txn_Insert(h, Tree_Txn(t), k, v))

Tree_Delete(t, k) ==
  LET r == Txn_Delete(Tree_Txn(t), k)
  IN [tree |-> Txn_Commit(r.txn), old |-> r.old, ok |-> r.ok]

(* ------------------------- walking the structure ----------------------- *)
\* the nodes a node points to, as the dumper walks them: the inner leaf and
\* the non-nil entries of children[0:nChildren] (of all 256 for a node256)
pointers(n) ==
  IF n.typ = typLeaf THEN {}
  ELSE LET nCh == IF n.typ = typNode256 THEN 256 ELSE n.nChildren
       IN ({n.leaf} \cup {At(n.children, i) : i \in 0..(nCh - 1)}) \ {NULL}

RECURSIVE reachFrom(_, _, _)
reachFrom(h, todo, seen) ==
  IF todo = {} THEN seen
  ELSE LET a == CHOOSE x \in todo : TRUE
       IN reachFrom(h, (todo \cup pointers(h[a])) \ (seen \cup {a}), seen \cup {a})

\* the addresses of the nodes reachable from root
Reach(h, root) == IF root = NULL THEN {} ELSE reachFrom(h, {root}, {})

\* the identifiers of the nodes reachable from root
reachIDs(h, root) == {h[a].id : a \in Reach(h, root)}

\* the key/value pairs of the leaves reachable from root, and their keys
content(h, root) ==
  {<<h[a].key, h[a].value>> : a \in {x \in Reach(h, root) : h[x].typ = typLeaf}}
storedKeys(h, root) == {p[1] : p \in content(h, root)}

\* the edges of inner node n: the triples <<edge byte, child, slot of the
\* child in the children array>>
edges(n) ==
  CASE n.typ = typLeaf -> {}
    [] n.typ \in {typNode4, typNode16} ->
         {<<At(n.index, i), At(n.children, i), i>> : i \in 0..(n.nChildren - 1)}
    [] n.typ = typNode48 ->
         {<<b, At(n.children, At(n.index, b) - 1), At(n.index, b) - 1>> :
            b \in {x \in 0..255 : At(n.index, x) > 0}}
    [] n.typ = typNode256 ->
         {<<b, At(n.children, b), b>> : b \in {x \in 0..255 : At(n.children, x) # NULL}}

\* the descent from node a, entered after the key bytes p: the places
\* [node, path, inner], where path holds the bytes that lead to the node (for
\* an inner leaf: up to and including the prefix of the node that holds it)
RECURSIVE placesFrom(_, _, _)
placesFrom(h, a, p) ==
  LET n == h[a]
      full == p \o prefix(h, n)
  IN {[node |-> a, path |-> p, inner |-> FALSE]}
       \cup (IF n.typ = typLeaf \/ n.leaf = NULL THEN {}
             ELSE {[node |-> n.leaf, path |-> full, inner |-> TRUE]})
       \cup UNION {placesFrom(h, e[2], full \o <<e[1]>>) : e \in edges(n)}

places(h, root) == IF root = NULL THEN {} ELSE placesFrom(h, root, <<>>)

(* ------------------------------- state --------------------------------- *)
VARIABLES
  heap,    \* the node records allocated so far, by address
  trees,   \* the committed Tree values (a Tree is an immutable struct)
  txn,     \* the transaction handle the client holds
  ret,     \* the last call and what it returned
  want     \* the key/value map the calls so far asked for: of txn, and the
           \* pairs <<tree, map>> of the committed trees

vars == <<heap, trees, txn, ret, want>>

\* the map m with k bound to v, with k removed, with the keys under p removed
put(m, k, v) == [x \in DOMAIN m \cup {k} |-> IF x = k THEN v ELSE m[x]]
del(m, k) == [x \in DOMAIN m \ {k} |-> m[x]]
isPrefix(p, k) == Len(k) >= Len(p) /\ SubSeq(k, 1, Len(p)) = p
delPrefix(m, p) == [x \in {y \in DOMAIN m : ~isPrefix(p, y)} |-> m[x]]
Empty == [x \in {} |-> NoValue]
\* the maps asked of tree t
wants(t) == {p[2] : p \in {q \in want.trees : q[1] = t}}

\* a call: the receiver tree (New when the receiver is the transaction), the
\* arguments, and what came back: the tree out (New when none), old, ok
call(op, tree, key, val, out, old, ok, panic) ==
  [op |-> op, tree |-> tree, key |-> key, val |-> val, out |-> out, old |-> old,
   ok |-> ok, panic |-> panic]

Init ==
  /\ heap = <<>>
  /\ trees = {New}
  /\ txn = NoTxn
  /\ ret = call("New", New, <<>>, NoValue, New, NoValue, FALSE, FALSE)
  /\ want = [trees |-> {<<New, Empty>>}, txn |-> Empty]

(* ------------------------------- actions ------------------------------- *)
\* One mutator at a time: Tree.Insert and Tree.Delete run while no
\* transaction is open, and a transaction is used until Commit returns or an
\* Insert panics.  Values are opaque to the code (interface{}, never
\* inspected): the first value a key gets is 1, a later insert of the same
\* key passes the next value (1 after MaxVal), so that the old and the new
\* value of a key differ.
ValuesFor(m, k) ==
  IF k \in DOMAIN m THEN {IF m[k] = MaxVal THEN 1 ELSE m[k] + 1} ELSE {1}

\* txn := t.Txn()
TreeTxn(t, m) ==
  /\ txn.state # "open"
  /\ Len(heap) < MaxHeap
  /\ txn' = Tree_Txn(t)
  /\ want' = [want EXCEPT !.txn = m]
  /\ ret' = call("Tree.Txn", t, <<>>, NoValue, New, NoValue, FALSE, FALSE)
  /\ UNCHANGED <<heap, trees>>

\* txn.Insert(k, v)
TxnInsert(k, v) ==
  /\ txn.state = "open"
  /\ \E r \in {Txn_Insert(heap, txn, k, v)} :
        /\ Len(r.heap) <= MaxHeap
        /\ heap' = r.heap
        /\ txn' = r.txn
        /\ ret' = call("Txn.Insert", New, k, v, New, r.old, r.ok, r.panic)
  /\ want' = [want EXCEPT !.txn = put(@, k, v)]
  /\ UNCHANGED trees

\* txn.Delete(k)
TxnDelete(k) ==
  /\ txn.state = "open"
  /\ LET r == Txn_Delete(txn, k)
     IN /\ txn' = r.txn
        /\ ret' = call("Txn.Delete", New, k, NoValue, New, r.old, r.ok, FALSE)
  /\ want' = [want EXCEPT !.txn = del(@, k)]
  /\ UNCHANGED <<heap, trees>>

\* txn.DeletePrefix(p)
TxnDeletePrefix(p) ==
  /\ txn.state = "open"
  /\ LET r == Txn_DeletePrefix(txn, p)
     IN /\ txn' = r.txn
        /\ ret' = call("Txn.DeletePrefix", New, p, NoValue, New, NoValue, r.ok, FALSE)
  /\ want' = [want EXCEPT !.txn = delPrefix(@, p)]
  /\ UNCHANGED <<heap, trees>>

\* txn.Get(k)
TxnGet(k) ==
  /\ txn.state = "open"
  /\ LET r == Txn_Get(txn, k)
     IN ret' = call("Txn.Get", New, k, NoValue, New, r.value, r.ok, FALSE)
  /\ UNCHANGED <<heap, trees, txn, want>>

\* t := txn.Commit()
TxnCommit ==
  /\ txn.state = "open"
  /\ LET t == Txn_Commit(txn)
     IN /\ Cardinality(want.trees \cup {<<t, want.txn>>}) <= MaxTrees
        /\ trees' = trees \cup {t}
        /\ want' = [want EXCEPT !.trees = @ \cup {<<t, want.txn>>}]
        /\ ret' = call("Txn.Commit", New, <<>>, NoValue, t, NoValue, FALSE, FALSE)
  /\ txn' = [txn EXCEPT !.state = "committed"]
  /\ UNCHANGED heap

\* t2, old, ok := t.Insert(k, v); nothing is returned when the insert panics
TreeInsert(t, m, k, v) ==
  /\ txn.state # "open"
  /\ \E r \in {Tree_Insert(heap, t, k, v)} :
        /\ Len(r.heap) <= MaxHeap
        /\ r.panic \/ Cardinality(want.trees \cup {<<r.tree, put(m, k, v)>>}) <= MaxChain
        /\ heap' = r.heap
        /\ trees' = IF r.panic THEN trees ELSE trees \cup {r.tree}
        /\ want' = IF r.panic THEN want
                   ELSE [want EXCEPT !.trees = @ \cup {<<r.tree, put(m, k, v)>>}]
        /\ ret' = call("Tree.Insert", t, k, v, IF r.panic THEN New ELSE r.tree, r.old, r.ok, r.panic)
  /\ UNCHANGED txn

\* t2, old, ok := t.Delete(k)
TreeDelete(t, m, k) ==
  /\ txn.state # "open"
  /\ LET r == Tree_Delete(t, k)
     IN /\ Cardinality(want.trees \cup {<<r.tree, del(m, k)>>}) <= MaxTrees
        /\ trees' = trees \cup {r.tree}
        /\ want' = [want EXCEPT !.trees = @ \cup {<<r.tree, del(m, k)>>}]
        /\ ret' = call("Tree.Delete", t, k, NoValue, r.tree, r.old, r.ok, FALSE)
  /\ UNCHANGED <<heap, txn>>

\* t.Get(k)
TreeGet(t, k) ==
  /\ LET r == Tree_Get(t, k)
     IN ret' = call("Tree.Get", t, k, NoValue, New, r.value, r.ok, FALSE)
  /\ UNCHANGED <<heap, trees, txn, want>>

\* t.Len()
TreeLen(t) ==
  /\ ret' = call("Tree.Len", t, <<>>, NoValue, New, Tree_Len(t), FALSE, FALSE)
  /\ UNCHANGED <<heap, trees, txn, want>>

\* a client that works through transactions
Next ==
  \/ \E t \in trees : \E m \in wants(t) : TreeTxn(t, m)
  \/ \E k \in Keys : \E v \in ValuesFor(want.txn, k) : TxnInsert(k, v)
  \/ TxnCommit

Spec == Init /\ [][Next]_vars

\* a client that derives trees with Tree.Insert
NextTree ==
  \E t \in trees : \E m \in wants(t) :
    \E k \in Keys : \E v \in ValuesFor(m, k) : TreeInsert(t, m, k, v)

SpecTree == Init /\ [][NextTree]_vars

\* The clients that also read or delete use the keys "" and "0" and at most
\* MaxHeapAPI node records.
KeysAPI == {<<>>, <<0>>}

\* a client that inserts and reads
NextRead ==
  \/ \E t \in trees : \E m \in wants(t) : TreeTxn(t, m)
  \/ \E k \in KeysAPI : \E v \in ValuesFor(want.txn, k) :
       TxnInsert(k, v) /\ Len(heap') <= MaxHeapAPI
  \/ TxnCommit
  \/ \E t \in trees : \E m \in wants(t) :
       \E k \in KeysAPI : \E v \in ValuesFor(m, k) :
         TreeInsert(t, m, k, v) /\ Len(heap') <= MaxHeapAPI
  \/ \E k \in KeysAPI : TxnGet(k)
  \/ \E t \in trees, k \in KeysAPI : TreeGet(t, k)
  \/ \E t \in trees : TreeLen(t)

SpecRead == Init /\ [][NextRead]_vars

\* a client that inserts and deletes
NextDelete ==
  \/ \E t \in trees : \E m \in wants(t) : TreeTxn(t, m)
  \/ \E k \in KeysAPI : \E v \in ValuesFor(want.txn, k) :
       TxnInsert(k, v) /\ Len(heap') <= MaxHeapAPI
  \/ TxnCommit
  \/ \E k \in KeysAPI : TxnDelete(k)
  \/ \E k \in KeysAPI : TxnDeletePrefix(k)
  \/ \E t \in trees : \E m \in wants(t) : \E k \in KeysAPI : TreeDelete(t, m, k)

SpecDelete == Init /\ [][NextDelete]_vars

\* txn.Insert(k, v) on a transaction whose Commit has returned: Commit and
\* CommitOnly write no field of the transaction, and Insert reads none that
\* tells a committed transaction from an open one
TxnInsertAfterCommit(k, v) ==
  /\ txn.state = "committed"
  /\ \E r \in {Txn_Insert(heap, txn, k, v)} :
        /\ heap' = r.heap
        /\ txn' = [r.txn EXCEPT !.state = IF r.panic THEN "panicked" ELSE "committed"]
        /\ ret' = call("Txn.Insert", New, k, v, New, r.old, r.ok, r.panic)
  /\ want' = [want EXCEPT !.txn = put(@, k, v)]
  /\ UNCHANGED trees

\* a client that goes on using a transaction after Commit
NextReuse ==
  \/ \E t \in trees : \E m \in wants(t) : TreeTxn(t, m)
  \/ \E k \in KeysAPI : \E v \in ValuesFor(want.txn, k) :
       TxnInsert(k, v) /\ Len(heap') <= MaxHeapAPI
  \/ TxnCommit
  \/ \E k \in KeysAPI : \E v \in ValuesFor(want.txn, k) :
       TxnInsertAfterCommit(k, v) /\ Len(heap') <= MaxHeapAPI

SpecReuse == Init /\ [][NextReuse]_vars

\* the same client with room for an inner node in the committed tree
NextAfter ==
  \/ \E t \in trees : \E m \in wants(t) : TreeTxn(t, m)
  \/ \E k \in KeysAPI : \E v \in ValuesFor(want.txn, k) : TxnInsert(k, v)
  \/ TxnCommit
  \/ \E k \in KeysAPI : \E v \in ValuesFor(want.txn, k) :
       TxnInsertAfterCommit(k, v) /\ Len(heap') <= MaxHeap

SpecAfter == Init /\ [][NextAfter]_vars

\* prefixLen is a uint16: the longest key whose length it can hold
maxKeyLen == 65535
\* a key one byte longer than that, and the short keys used beside it
LongKey == [i \in 1..(maxKeyLen + 1) |-> 1]
KeysLong == {<<>>, <<0>>, LongKey}

\* a client of transactions that also inserts the long key
NextLong ==
  \/ \E t \in trees : \E m \in wants(t) : TreeTxn(t, m)
  \/ \E k \in KeysLong : \E v \in ValuesFor(want.txn, k) :
       TxnInsert(k, v) /\ Len(heap') <= MaxHeapLong
  \/ TxnCommit

SpecLong == Init /\ [][NextLong]_vars

(* ------------------------------ deep keys ------------------------------ *)
\* Keys of up to three bytes, which put inner nodes with a prefix below the
\* root, in one transaction on the empty tree.
KeysDeep == {<<0>>, <<1>>, <<0, 1>>, <<0, 0, 0>>, <<0, 0, 1>>}

\* txn.Insert(k, v)
DeepInsert(k, v) ==
  /\ txn.state = "open"
  /\ \E r \in {Txn_Insert(heap, txn, k, v)} :
        /\ Len(r.heap) <= MaxHeapDeep
        /\ heap' = r.heap
        /\ txn' = r.txn
        /\ ret' = call("Txn.Insert", New, k, v, New, r.old, r.ok, r.panic)
  /\ want' = [want EXCEPT !.txn = put(@, k, v)]
  /\ UNCHANGED trees

NextDeep ==
  \/ \E t \in trees : \E m \in wants(t) : TreeTxn(t, m)
  \/ \E k \in KeysDeep : \E v \in ValuesFor(want.txn, k) : DeepInsert(k, v)

SpecDeep == Init /\ [][NextDeep]_vars

\* Keys with five first bytes, which fill a node4 and make it grow, in one
\* transaction on the empty tree.
KeysWide == {<<0>>, <<1>>, <<2>>, <<3>>, <<4>>}

NextWide ==
  \/ \E t \in trees : \E m \in wants(t) : TreeTxn(t, m)
  \/ \E k \in KeysWide : \E v \in ValuesFor(want.txn, k) : DeepInsert(k, v)

SpecWide == Init /\ [][NextWide]_vars

\* A client that commits and inserts again, with room for a second insert
\* after the one that copied a node of the snapshot.
NextSnap ==
  \/ \E t \in trees : \E m \in wants(t) : TreeTxn(t, m)
  \/ \E k \in KeysAPI \cup {<<1>>} : \E v \in ValuesFor(want.txn, k) : DeepInsert(k, v)
  \/ TxnCommit

SpecSnap == Init /\ [][NextSnap]_vars

\* where the descent of insert(n, k, v, offset) ends: at = "nil" on no node,
\* "leaf" on the leaf node, "end" on the inner node the key is exhausted at,
\* "split" on the inner node whose prefix matches the rest of k for
\* lcp < len(prefix) bytes only, "panic" on the node whose prefix uses up the
\* key, "add" on the inner node with no child for the next byte; d is the
\* offset the node is reached with
RECURSIVE insertPoint(_, _, _, _)
insertPoint(h, n, k, offset) ==
  LET at(x, lcp) == [node |-> n, d |-> offset, lcp |-> lcp, at |-> x]
  IN IF n = NULL THEN at("nil", 0)
     ELSE IF h[n].typ = typLeaf THEN at("leaf", 0)
     ELSE IF offset >= Len(k) THEN at("end", 0)
     ELSE LET pfx == prefix(h, h[n])
              lcp == longestPrefix(Slice(k, offset, Len(k)), pfx)
              next == IF Len(pfx) > 0 THEN offset + Len(pfx) ELSE offset
          IN IF Len(pfx) > 0 /\ lcp < Len(pfx) THEN at("split", lcp)
             ELSE IF next >= Len(k) THEN at("panic", lcp)
             ELSE IF findChild(h[n], At(k, next)) = NULL THEN at("add", lcp)
             ELSE insertPoint(h, findChild(h[n], At(k, next)), k, next + 1)

(* ------------------------- the NUL byte in keys ------------------------ *)
\* Two clients make the same calls, the first with keys over the bytes 0x00
\* and 0x02, the twin with 0x01 in the place of every 0x00 (0x01 is below
\* 0x02 as 0x00 is).  heap, txn and ret are those of the first client,
\* want.twin holds the heap, the handle and the last results of the twin.
KeysNul == {<<>>, <<0>>, <<2>>, <<0, 0>>, <<0, 2>>}

\* the byte, and the key, the twin uses
ren(b) == IF b = 0 THEN 1 ELSE b
renKey(k) == [i \in 1..Len(k) |-> ren(k[i])]

twin(h, t, tree, old, ok, panic) ==
  [heap |-> h, txn |-> t, tree |-> tree, old |-> old, ok |-> ok, panic |-> panic]

InitNul ==
  /\ heap = <<>>
  /\ trees = {New}
  /\ txn = NoTxn
  /\ ret = call("New", New, <<>>, NoValue, New, NoValue, FALSE, FALSE)
  /\ want = [trees |-> {<<New, Empty>>}, txn |-> Empty,
             twin |-> twin(<<>>, NoTxn, New, NoValue, FALSE, FALSE)]

\* txn := t.Txn(), on the tree the last Commit returned (on New at first)
NulTxn ==
  /\ txn.state \in {"none", "committed"}
  /\ Len(heap) < MaxHeap
  /\ txn' = Tree_Txn(ret.out)
  /\ ret' = call("Tree.Txn", ret.out, <<>>, NoValue, ret.out, NoValue, FALSE, FALSE)
  /\ want' = [want EXCEPT !.twin = [@ EXCEPT !.txn = Tree_Txn(want.twin.tree)]]
  /\ UNCHANGED <<heap, trees>>

\* txn.Insert(k, v), and txn.Insert(k2, v) by the twin
TwinInsert(k, k2, v) ==
  /\ txn.state = "open"
  /\ \E r \in {Txn_Insert(heap, txn, k, v)} :
       \E r2 \in {Txn_Insert(want.twin.heap, want.twin.txn, k2, v)} :
         /\ Len(r.heap) <= MaxHeap
         /\ heap' = r.heap
         /\ txn' = r.txn
         /\ ret' = call("Txn.Insert", ret.out, k, v, ret.out, r.old, r.ok, r.panic)
         /\ want' = [want EXCEPT
                       !.txn = put(@, k, v),
                       !.twin = twin(r2.heap, r2.txn, want.twin.tree,
                                     r2.old, r2.ok, r2.panic)]
  /\ UNCHANGED trees

\* txn.Insert(k, v), and txn.Insert(renKey(k), v) by the twin
NulInsert(k, v) == TwinInsert(k, renKey(k), v)

\* t := txn.Commit(), by both
NulCommit ==
  /\ txn.state = "open"
  /\ \E t \in {Txn_Commit(txn)} :
       /\ trees' = trees \cup {t}
       /\ ret' = call("Txn.Commit", ret.out, <<>>, NoValue, t, NoValue, FALSE, FALSE)
       /\ want' = [want EXCEPT
                     !.trees = @ \cup {<<t, want.txn>>},
                     !.twin = twin(want.twin.heap,
                                   [want.twin.txn EXCEPT !.state = "committed"],
                                   Txn_Commit(want.twin.txn), NoValue, FALSE, FALSE)]
  /\ txn' = [txn EXCEPT !.state = "committed"]
  /\ UNCHANGED heap

NextNul ==
  \/ NulTxn
  \/ \E k \in KeysNul : \E v \in ValuesFor(want.txn, k) : NulInsert(k, v)
  \/ NulCommit

SpecNul == InitNul /\ [][NextNul]_vars

(* --------------------- prefixes longer than the buffer ----------------- *)
\* Two clients make the same calls, the first with keys that share a prefix
\* of maxPrefixLen + 1 bytes, one more than the prefix array of a node
\* holds, the twin with the same keys without their first capCut bytes, so
\* that the shared prefix fits.
capCut == maxPrefixLen - 1
KeysCap ==
  {[i \in 1..(maxPrefixLen + 1) |-> 0] \o t : t \in {<<0>>, <<1>>, <<2>>}}

\* the key the twin uses
capKey(k) == SubSeq(k, capCut + 1, Len(k))

NextCap ==
  \/ NulTxn
  \/ \E k \in KeysCap : \E v \in ValuesFor(want.txn, k) : TwinInsert(k, capKey(k), v)
  \/ NulCommit

SpecCap == InitNul /\ [][NextCap]_vars

\* the shape of the tree under node a: kinds, prefixes, inner leaves, edge
\* bytes with the slot of each child (a node256 has the byte for slot), and
\* the keys and values of the leaves
RECURSIVE shape(_, _)
shape(h, a) ==
  IF a = NULL THEN [typ |-> NULL]
  ELSE IF h[a].typ = typLeaf
  THEN [typ |-> typLeaf, key |-> h[a].key, value |-> h[a].value]
  ELSE [typ |-> h[a].typ, prefixLen |-> h[a].prefixLen,
        prefix |-> prefix(h, h[a]), leaf |-> shape(h, h[a].leaf),
        edges |-> {<<e[1], IF h[a].typ = typNode256 THEN 0 ELSE e[3], shape(h, e[2])>> :
                     e \in edges(h[a])}]

\* the shape s with every byte b replaced by ren(b)
RECURSIVE renShape(_)
renShape(s) ==
  IF s.typ = NULL THEN s
  ELSE IF s.typ = typLeaf THEN [s EXCEPT !.key = renKey(@)]
  ELSE [s EXCEPT !.prefix = renKey(@), !.leaf = renShape(@),
                 !.edges = {<<ren(e[1]), e[2], renShape(e[3])>> : e \in @}]

(* ---------------------------- the node tests --------------------------- *)
\* The node tests work on one inner node through addChild and removeChild,
\* with a zero Txn and one leaf per edge byte (key and value "ccc" for byte
\* c), and read the node back after every call.  Here heap holds the leaves
\* and the nodes, ret.node is the node the last call returned and want.txn
\* maps each edge byte added and not removed to its child.

\* The edge bytes: a test first fills an empty node with FillByte(1..n), low
\* and high bytes in turn, then adds and removes the bytes of FreeBytes, which
\* lie below, between and above the fill bytes, in any order
PoolBytes == <<0, 90, 255>>
FillByte(i) == i
FreeBytes == {PoolBytes[i] : i \in 1..Len(PoolBytes)}

\* the shape of the node a test starts with and the number of fill bytes:
\* just below the grow and the shrink threshold of each shape
Starts ==
  {<<typNode4, 0>>, <<typNode4, 2>>, <<typNode16, 3>>, <<typNode16, 14>>,
   <<typNode48, 15>>, <<typNode48, 46>>, <<typNode256, 47>>}

\* the bytes that get a leaf in a test that fills n bytes
leafBytes(n) ==
  LET nFill == IF n < 2 THEN 2 ELSE n
  IN [i \in 1..(nFill + Len(PoolBytes)) |->
        IF i <= nFill THEN FillByte(i) ELSE PoolBytes[i - nFill]]

testMakeLeaf(c, b) == newLeafNode(c, <<b, b, b>>, <<b, b, b>>)

\* p.children are the leaves made so far, in the context p.c
RECURSIVE testMakeChildLeaves(_, _)
testMakeChildLeaves(p, bs) ==
  IF Len(p.children) >= Len(bs) THEN p
  ELSE LET l == testMakeLeaf(p.c, bs[Len(p.children) + 1])
       IN testMakeChildLeaves([c |-> l.c, children |-> Append(p.children, l.a)], bs)

\* the leaf made for byte b
leafOf(h, b) ==
  CHOOSE a \in 1..Len(h) : h[a].typ = typLeaf /\ h[a].key = <<b, b, b>>

newNode(c, typ) ==
  CASE typ = typNode4 -> newNode4(c)
    [] typ = typNode16 -> newNode16(c)
    [] typ = typNode48 -> newNode48(c)
    [] typ = typNode256 -> newNode256(c)

\* the loop that adds the fill bytes up to n to the node p.a: after the i-th
\* call the node holds i children
RECURSIVE testAddChildren(_, _)
testAddChildren(p, n) ==
  IF p.c.heap[p.a].nChildren >= n THEN p
  ELSE LET b == FillByte(p.c.heap[p.a].nChildren + 1)
       IN testAddChildren(addChild(p.c, p.a, b, leafOf(p.c.heap, b)), n)

\* the node under test as insert leaves a node in a tree: with a prefix and
\* with an inner leaf, the leaf of the key that ends with the prefix
testHeader(p) ==
  LET l == newLeafNode(p.c, <<7>>, <<7>>)
  IN [c |-> setInnerLeaf(setPrefix(l.c, p.a, <<7>>), p.a, l.a), a |-> p.a]

\* the leaves, then the empty node of shape st[1] with its prefix and inner
\* leaf, then its st[2] fill bytes
testNode(st) ==
  testAddChildren(
    testHeader(
      newNode(testMakeChildLeaves([c |-> context(<<>>, Tree_Txn(New)), children |-> <<>>],
                                  leafBytes(st[2])).c,
              st[1])),
    st[2])

\* the bytes a test asks lowerBound for: the bytes it adds and removes, their
\* neighbours, and both ends of the byte range
Probes == {x \in 0..255 : \E b \in FreeBytes : x \in {b - 1, b, b + 1}}

\* what a test reads from node a after a call; addOnly tells that the node
\* has been built by addChild calls only, from is the shape of the node the
\* call was made on, found tells that this node held byte b, and pair that
\* the call is a removeChild right after an addChild that changed the shape
nodeCall(op, b, child, a, panic, h, addOnly, prev, found) ==
  [op |-> op, c |-> b, child |-> child, node |-> a, panic |-> panic,
   addOnly |-> addOnly, from |-> prev.typ, found |-> found,
   pair |-> op = "removeChild" /\ prev.op = "addChild" /\ prev.from # prev.typ,
   typ |-> h[a].typ, nChildren |-> h[a].nChildren,
   min |-> minChild(h[a]), max |-> maxChild(h[a]),
   lower |-> [x \in Probes |-> lowerBound(h[a], x)]]

InitNode ==
  \E st \in Starts : \E p \in {testNode(st)} :
    /\ heap = p.c.heap
    /\ trees = {New}
    /\ txn = [Tree_Txn(New) EXCEPT !.maxRootID = p.c.maxRootID]
    /\ ret = nodeCall("newNode", 0, NULL, p.a, FALSE, p.c.heap, TRUE,
                     [op |-> "newNode", from |-> st[1], typ |-> st[1]], FALSE)
    /\ want = [trees |-> {<<New, Empty>>},
               txn |-> [b \in {FillByte(i) : i \in 1..st[2]} |-> leafOf(p.c.heap, b)]]

innerNodes(h) == {a \in 1..Len(h) : h[a].typ # typLeaf}

\* nh := n.addChild(txn, b, child) with b not in the node
NodeAddChild(b) ==
  /\ ~ret.panic
  /\ b \notin DOMAIN want.txn
  /\ \E r \in {addChild(context(heap, txn), ret.node, b, leafOf(heap, b))} :
        /\ Cardinality(innerNodes(r.c.heap)) <= MaxNodes
        /\ heap' = r.c.heap
        /\ txn' = [txn EXCEPT !.maxRootID = r.c.maxRootID]
        /\ ret' = nodeCall("addChild", b, leafOf(heap, b), r.a, FALSE, r.c.heap,
                           ret.addOnly, ret, findChild(heap[ret.node], b) # NULL)
  /\ want' = [want EXCEPT !.txn = put(@, b, leafOf(heap, b))]
  /\ UNCHANGED trees

\* nh := n.removeChild(txn, b) with b in the node; a panic ends the test
NodeRemoveChild(b) ==
  /\ ~ret.panic
  /\ b \in DOMAIN want.txn
  /\ \E r \in {removeChild(context(heap, txn), ret.node, b)} :
        /\ Cardinality(innerNodes(r.c.heap)) <= MaxNodes
        /\ heap' = r.c.heap
        /\ txn' = [txn EXCEPT !.maxRootID = r.c.maxRootID]
        /\ ret' = nodeCall("removeChild", b, NULL, IF r.panic THEN ret.node ELSE r.a,
                           r.panic, r.c.heap, FALSE, ret,
                           findChild(heap[ret.node], b) # NULL)
  /\ want' = [want EXCEPT !.txn = del(@, b)]
  /\ UNCHANGED trees

NextNode ==
  \/ \E b \in FreeBytes : NodeAddChild(b)
  \/ \E b \in FreeBytes : NodeRemoveChild(b)

SpecNode == InitNode /\ [][NextNode]_vars

\* The calls that are to leave a node as it is: removeChild and replaceChild
\* with a byte the node has no child for, and copy, after which the test goes
\* on with the copy.

\* nh := n.removeChild(txn, b) with b not in the node
NodeRemoveAbsent(b) ==
  /\ ~ret.panic
  /\ findChild(heap[ret.node], b) = NULL
  /\ \E r \in {removeChild(context(heap, txn), ret.node, b)} :
        /\ Cardinality(innerNodes(r.c.heap)) <= MaxNodes
        /\ heap' = r.c.heap
        /\ txn' = [txn EXCEPT !.maxRootID = r.c.maxRootID]
        /\ ret' = nodeCall("removeChild", b, NULL, IF r.panic THEN ret.node ELSE r.a,
                           r.panic, r.c.heap, FALSE, ret, FALSE)
  /\ want' = [want EXCEPT !.txn = del(@, b)]
  /\ UNCHANGED trees

\* nh := n.replaceChild(txn, b, child) with b not in the node
NodeReplaceAbsent(b) ==
  /\ ~ret.panic
  /\ findChild(heap[ret.node], b) = NULL
  /\ \E r \in {replaceChild(context(heap, txn), ret.node, b, leafOf(heap, 0))} :
        /\ heap' = r.c.heap
        /\ txn' = [txn EXCEPT !.maxRootID = r.c.maxRootID]
        /\ ret' = nodeCall("replaceChild", b, leafOf(heap, 0), r.a, FALSE, r.c.heap,
                           FALSE, ret, FALSE)
  /\ UNCHANGED <<trees, want>>

\* nh := n.copy(txn)
NodeCopy ==
  /\ ~ret.panic
  /\ \E r \in {copy(context(heap, txn), ret.node)} :
        /\ Cardinality(innerNodes(r.c.heap)) <= MaxNodes
        /\ heap' = r.c.heap
        /\ txn' = [txn EXCEPT !.maxRootID = r.c.maxRootID]
        /\ ret' = nodeCall("copy", 0, NULL, r.a, FALSE, r.c.heap, ret.addOnly, ret, FALSE)
  /\ UNCHANGED <<trees, want>>

NextFrame ==
  \/ \E b \in FreeBytes : NodeAddChild(b)
  \/ \E b \in FreeBytes : NodeRemoveAbsent(b)
  \/ \E b \in FreeBytes : NodeReplaceAbsent(b)
  \/ NodeCopy

SpecFrame == InitNode /\ [][NextFrame]_vars

(* ------------------------------ properties ----------------------------- *)
\* C1: a Tree.Insert call, whether it returns or panics, leaves every
\* existing tree as it was: the tree value stays, the set of nodes reachable
\* from its root stays, each of those nodes keeps every field, and so the
\* keys and values stored in it stay.  Holding at every step, it holds along
\* any chain of Tree.Insert calls.
C1_TreeInsertKeepsTrees ==
  [][ret'.op = "Tree.Insert" =>
       \A t \in trees :
         /\ t \in trees'
         /\ Reach(heap', t.root) = Reach(heap, t.root)
         /\ \A a \in Reach(heap, t.root) : heap'[a] = heap[a]
         /\ content(heap', t.root) = content(heap, t.root)]_vars

\* Tree.Insert returned a tree whose root is a copy of the inner node that is
\* the root of the receiver, and the two roots share a child
C1_Witness ==
  /\ ret.op = "Tree.Insert" /\ ~ret.panic
  /\ ret.tree.root # NULL
  /\ heap[ret.tree.root].typ = typNode4
  /\ \E t2 \in {ret.out} :
       /\ t2.maxID > ret.tree.maxID
       /\ t2.root # ret.tree.root
       /\ heap[t2.root].typ = typNode4
       /\ heap[t2.root].id > ret.tree.maxID
       /\ pointers(heap[t2.root]) \cap pointers(heap[ret.tree.root]) # {}
       /\ content(heap, t2.root) # content(heap, ret.tree.root)

\* C2: while a transaction is open, a Txn.Insert call, whether it returns or
\* panics, writes no field of any node whose identifier is <= maxSnapID;
\* every committed tree, the one the transaction started from included, keeps
\* its nodes and its content, so a reader sees the same tree at every step
\* and dropping the transaction at any step leaves the trees as they were.
C2_TxnInsertKeepsSnapshot ==
  [][ret'.op = "Txn.Insert" =>
       /\ \A a \in 1..Len(heap) : heap[a].id <= txn.maxSnapID => heap'[a] = heap[a]
       /\ \A a \in Reach(heap, txn.snap) : heap'[a] = heap[a]
       /\ content(heap', txn.snap) = content(heap, txn.snap)
       /\ trees' = trees
       /\ \A t \in trees :
            /\ \A a \in Reach(heap, t.root) : heap'[a] = heap[a]
            /\ content(heap', t.root) = content(heap, t.root)]_vars

\* an open transaction whose snapshot root is an inner node has inserted: its
\* root is a copy with a larger identifier, the snapshot root is discarded
C2_Witness ==
  /\ ret.op = "Txn.Insert" /\ ~ret.panic /\ txn.state = "open"
  /\ txn.snap # NULL /\ heap[txn.snap].typ = typNode4
  /\ txn.root # txn.snap
  /\ heap[txn.root].typ = typNode4
  /\ heap[txn.root].id > txn.maxSnapID
  /\ heap[txn.snap].id \in txn.mutateSet
  /\ content(heap, txn.root) # content(heap, txn.snap)

\* C3: Get(k), on a transaction and on a tree, returns (the value inserted
\* for k, true) when k is one of the keys inserted and (nil, false) when it is
\* not.
C3_GetReturnsInserted ==
  /\ ret.op = "Txn.Get" =>
       IF ret.key \in DOMAIN want.txn
       THEN ret.ok /\ ret.old = want.txn[ret.key]
       ELSE ~ret.ok /\ ret.old = NoValue
  /\ ret.op = "Tree.Get" =>
       \A m \in wants(ret.tree) :
         IF ret.key \in DOMAIN m
         THEN ret.ok /\ ret.old = m[ret.key]
         ELSE ~ret.ok /\ ret.old = NoValue

\* C4: a Txn.Insert(k, v) that returns, returns replaced = true if and only
\* if k was stored in the transaction's tree when it was called, and then the
\* old value it returns is the value that was stored under k.
C4_InsertReportsReplaced ==
  [][ret'.op = "Txn.Insert" /\ ~ret'.panic =>
       /\ ret'.ok <=> ret'.key \in storedKeys(heap, txn.root)
       /\ ret'.ok => <<ret'.key, ret'.old>> \in content(heap, txn.root)]_vars

\* C5: Len() of a tree made by inserts, through Tree.Insert or through a
\* committed transaction, is the number of distinct keys inserted.
C5_LenCountsKeys ==
  ret.op = "Tree.Len" =>
    \A m \in wants(ret.tree) : ret.old = Cardinality(DOMAIN m)

\* C6: Delete of a stored key, on a transaction and on a tree, returns its
\* value with existed = true, and the tree after holds every other key with
\* its value, not that key, and has a size one less.
C6_DeleteRemovesStoredKey ==
  [][/\ (ret'.op = "Txn.Delete" /\ ret'.key \in storedKeys(heap, txn.root)) =>
          /\ ret'.ok
          /\ <<ret'.key, ret'.old>> \in content(heap, txn.root)
          /\ content(heap', txn'.root) =
               content(heap, txn.root) \ {<<ret'.key, ret'.old>>}
          /\ txn'.size = txn.size - 1
     /\ (ret'.op = "Tree.Delete" /\ ret'.key \in storedKeys(heap, ret'.tree.root)) =>
          /\ ret'.ok
          /\ <<ret'.key, ret'.old>> \in content(heap, ret'.tree.root)
          /\ content(heap', ret'.out.root) =
               content(heap, ret'.tree.root) \ {<<ret'.key, ret'.old>>}
          /\ ret'.out.size = ret'.tree.size - 1]_vars

\* C7: Txn.Delete of a key that is not stored returns (nil, false),
\* Txn.DeletePrefix of a prefix that no stored key starts with returns false,
\* and both leave the root, the size and the discard set of the transaction
\* as they were.
C7_DeleteOfAbsentChangesNothing ==
  [][/\ (ret'.op = "Txn.Delete" /\ ret'.key \notin storedKeys(heap, txn.root)) =>
          /\ ~ret'.ok /\ ret'.old = NoValue
          /\ txn'.root = txn.root /\ txn'.size = txn.size
          /\ txn'.mutateSet = txn.mutateSet
     /\ (/\ ret'.op = "Txn.DeletePrefix"
         /\ \A k \in storedKeys(heap, txn.root) : ~isPrefix(ret'.key, k)) =>
          /\ ~ret'.ok
          /\ txn'.root = txn.root /\ txn'.size = txn.size
          /\ txn'.mutateSet = txn.mutateSet]_vars

\* Txn.Delete of a key that is not stored has returned, in a transaction that
\* holds another key and has discarded a node
C7_Witness ==
  /\ ret.op = "Txn.Delete" /\ txn.state = "open"
  /\ txn.root # NULL /\ txn.mutateSet # {}
  /\ storedKeys(heap, txn.root) # {}
  /\ ret.key \notin storedKeys(heap, txn.root)

\* C8: in a transaction, at any step at which it may be committed and once it
\* is, every identifier in the discard set is reachable from the root the
\* transaction started from, none is reachable from the transaction's root,
\* and none is > maxSnapID.
C8_DiscardSetSound ==
  txn.state \in {"open", "committed"} =>
    /\ txn.mutateSet \subseteq reachIDs(heap, txn.snap)
    /\ txn.mutateSet \cap reachIDs(heap, txn.root) = {}
    /\ \A id \in txn.mutateSet : id <= txn.maxSnapID

\* a transaction that discarded two nodes or more is committed
C8_Witness ==
  /\ ret.op = "Txn.Commit" /\ txn.state = "committed"
  /\ ret.out.root = txn.root
  /\ Cardinality(txn.mutateSet) >= 2

\* C9: in a transaction, at any step at which it may be committed and once it
\* is, every identifier reachable from the root the transaction started from
\* and not reachable from the transaction's root is in the discard set.
C9_DiscardSetComplete ==
  txn.state \in {"open", "committed"} =>
    (reachIDs(heap, txn.snap) \ reachIDs(heap, txn.root)) \subseteq txn.mutateSet

\* C10: in every committed tree, and in the tree of the open transaction, no
\* two nodes reachable from the root have the same identifier and every
\* reachable identifier is <= maxID (maxRootID in the transaction); every node
\* a Txn.Insert allocates gets an identifier > maxSnapID and > every
\* identifier allocated before it in the transaction; Commit returns a tree
\* whose maxID is the transaction's maxRootID.
C10_IdentifiersUnique ==
  /\ [](/\ \A t \in trees :
             /\ \A a, b \in Reach(heap, t.root) : heap[a].id = heap[b].id => a = b
             /\ \A a \in Reach(heap, t.root) : heap[a].id <= t.maxID
        /\ txn.state = "open" =>
             /\ \A a, b \in Reach(heap, txn.root) : heap[a].id = heap[b].id => a = b
             /\ \A a \in Reach(heap, txn.root) : heap[a].id <= txn.maxRootID)
  /\ [][/\ ret'.op = "Txn.Insert" =>
             /\ \A a \in (Len(heap) + 1)..Len(heap') :
                  /\ heap'[a].id > txn.maxSnapID
                  /\ heap'[a].id > txn.maxRootID
                  /\ heap'[a].id <= txn'.maxRootID
                  /\ \A b \in (Len(heap) + 1)..(a - 1) : heap'[b].id < heap'[a].id
             /\ \A a \in 1..Len(heap) : heap'[a].id = heap[a].id
        /\ ret'.op = "Txn.Commit" => ret'.out.maxID = txn.maxRootID]_vars

\* a transaction started from a tree with nodes has copied or replaced nodes
\* and is committed: the tree has nodes from before and from the transaction,
\* and identifiers that are no longer in it
C10_Witness ==
  /\ ret.op = "Txn.Commit" /\ txn.state = "committed"
  /\ txn.maxSnapID > 0
  /\ ret.out.maxID > txn.maxSnapID
  /\ \E a, b \in Reach(heap, ret.out.root) :
       heap[a].id <= txn.maxSnapID /\ heap[b].id > txn.maxSnapID
  /\ Cardinality(Reach(heap, ret.out.root)) >= 3
  /\ Cardinality(Reach(heap, ret.out.root)) < ret.out.maxID

\* C11: a Txn.Insert called on a transaction after Commit has returned on it
\* is signalled as a fatal error (a panic): it never returns normally.
C11_InsertAfterCommitFails ==
  [][(txn.state = "committed" /\ ret'.op = "Txn.Insert") => ret'.panic]_vars

\* C12: a Txn.Insert whose key is longer than the longest representable key
\* fails (it does not return normally), and it leaves the root, the size and
\* the discard set of the transaction and every committed tree as they were.
C12_LongKeyInsertFails ==
  [][(ret'.op = "Txn.Insert" /\ Len(ret'.key) > maxKeyLen) =>
       /\ ret'.panic
       /\ txn'.root = txn.root /\ txn'.size = txn.size
       /\ txn'.mutateSet = txn.mutateSet
       /\ trees' = trees
       /\ \A t \in trees : content(heap', t.root) = content(heap, t.root)]_vars

\* C13: addChild(c, child) on a node4 that holds 4 children, with c not among
\* its bytes, returns a node16 with exactly 5 children, where findChild
\* returns each of the 4 previous children under its byte and the new child
\* under c.
C13_Node4GrowKeepsAll ==
  [][(ret'.op = "addChild" /\ heap[ret.node].typ = typNode4
        /\ heap[ret.node].nChildren = 4) =>
       /\ heap'[ret'.node].typ = typNode16
       /\ heap'[ret'.node].nChildren = 5
       /\ \A x \in 0..255 :
            findChild(heap[ret.node], x) # NULL =>
              findChild(heap'[ret'.node], x) = findChild(heap[ret.node], x)
       /\ findChild(heap'[ret'.node], ret'.c) = ret'.child]_vars

\* C14: addChild(c, child) with c not among the bytes of the node, on a
\* node16 that holds 16 children, returns a node48 with 17 children, and on a
\* node48 that holds 48 children returns a node256 with 49 children; in both
\* cases findChild returns every previous child under its byte and the new
\* child under c.
C14_GrowKeepsAll ==
  [][(/\ ret'.op = "addChild"
      /\ \/ heap[ret.node].typ = typNode16 /\ heap[ret.node].nChildren = 16
         \/ heap[ret.node].typ = typNode48 /\ heap[ret.node].nChildren = 48) =>
       /\ heap'[ret'.node].typ =
            IF heap[ret.node].typ = typNode16 THEN typNode48 ELSE typNode256
       /\ heap'[ret'.node].nChildren = heap[ret.node].nChildren + 1
       /\ \A x \in 0..255 :
            findChild(heap[ret.node], x) # NULL =>
              findChild(heap'[ret'.node], x) = findChild(heap[ret.node], x)
       /\ findChild(heap'[ret'.node], ret'.c) = ret'.child]_vars

\* C15: removeChild(c) of a byte of a node16 removes it in place when the
\* node holds more than 5 children: the same node is returned with one child
\* less, c is no longer found and the other children are found as before.
\* When the node holds exactly 5 children a node4 is returned that holds
\* exactly the 4 remaining children, each found under its byte, with its
\* index bytes in ascending order.
C15_Node16Remove ==
  [][(/\ ret'.op = "removeChild"
      /\ heap[ret.node].typ = typNode16
      /\ heap[ret.node].nChildren >= 5
      /\ findChild(heap[ret.node], ret'.c) # NULL) =>
       /\ ~ret'.panic
       /\ heap'[ret'.node].nChildren = heap[ret.node].nChildren - 1
       /\ findChild(heap'[ret'.node], ret'.c) = NULL
       /\ \A x \in 0..255 :
            (x # ret'.c /\ findChild(heap[ret.node], x) # NULL) =>
              findChild(heap'[ret'.node], x) = findChild(heap[ret.node], x)
       /\ IF heap[ret.node].nChildren > 5
          THEN ret'.node = ret.node /\ heap'[ret'.node].typ = typNode16
          ELSE /\ heap'[ret'.node].typ = typNode4
               /\ heap'[ret'.node].nChildren = 4
               /\ \A i, j \in 1..4 :
                    i < j => heap'[ret'.node].index[i] < heap'[ret'.node].index[j]]_vars

\* C16: removeChild(c) of a byte of a node48 that holds exactly 17 children,
\* whatever the 17 bytes are, returns (without a panic) a node16 that holds
\* exactly the 16 remaining children: findChild on the result returns each
\* remaining child under its byte and nil for c.
C16_Node48ShrinksToNode16 ==
  [][(/\ ret'.op = "removeChild"
      /\ heap[ret.node].typ = typNode48
      /\ heap[ret.node].nChildren = 17
      /\ findChild(heap[ret.node], ret'.c) # NULL) =>
       /\ ~ret'.panic
       /\ heap'[ret'.node].typ = typNode16
       /\ heap'[ret'.node].nChildren = 16
       /\ findChild(heap'[ret'.node], ret'.c) = NULL
       /\ \A x \in 0..255 :
            (x # ret'.c /\ findChild(heap[ret.node], x) # NULL) =>
              findChild(heap'[ret'.node], x) = findChild(heap[ret.node], x)]_vars

\* C17: removeChild(c) of a byte of a node256 that holds exactly 49 children
\* returns a node48 that holds exactly the 48 remaining children, each found
\* under its byte; on a node256 that holds more than 49 children the removal
\* is in place and the node stays a node256.
C17_Node256Remove ==
  [][(/\ ret'.op = "removeChild"
      /\ heap[ret.node].typ = typNode256
      /\ heap[ret.node].nChildren >= 49
      /\ findChild(heap[ret.node], ret'.c) # NULL) =>
       /\ ~ret'.panic
       /\ heap'[ret'.node].nChildren = heap[ret.node].nChildren - 1
       /\ findChild(heap'[ret'.node], ret'.c) = NULL
       /\ \A x \in 0..255 :
            (x # ret'.c /\ findChild(heap[ret.node], x) # NULL) =>
              findChild(heap'[ret'.node], x) = findChild(heap[ret.node], x)
       /\ IF heap[ret.node].nChildren > 49
          THEN ret'.node = ret.node /\ heap'[ret'.node].typ = typNode256
          ELSE heap'[ret'.node].typ = typNode48]_vars

\* C18: as long as no call has grown or shrunk the node (the node made first
\* is the only inner node), a node of any of the four shapes, filled from
\* empty by addChild calls with absent bytes and changed by addChild calls
\* with absent bytes and removeChild calls with present bytes, is the map
\* from byte to child: findChild(c) is the child added last under c when c
\* is present and nil otherwise, and nChildren is the number of present bytes.
C18_InPlaceNodeIsMap ==
  (Cardinality(innerNodes(heap)) = 1 /\ ~ret.panic) =>
    /\ \A x \in 0..255 :
         findChild(heap[ret.node], x) =
           IF x \in DOMAIN want.txn THEN want.txn[x] ELSE NULL
    /\ heap[ret.node].nChildren = Cardinality(DOMAIN want.txn)

\* a removeChild call took a child out of a node48 in place, leaving 17, one
\* of them added by an earlier call, and a byte the node does not hold
C18_Witness ==
  /\ ret.op = "removeChild" /\ ~ret.panic
  /\ Cardinality(innerNodes(heap)) = 1
  /\ ret.typ = typNode48 /\ ret.nChildren = 17
  /\ findChild(heap[ret.node], ret.c) = NULL
  /\ \E b \in FreeBytes : findChild(heap[ret.node], b) = leafOf(heap, b)

C20_LowerBound ==
  (ret.addOnly /\ ~ret.panic) =>
    \A c \in Probes :
      LET present == {x \in c..255 : findChild(heap[ret.node], x) # NULL}
      IN ret.lower[c] =
           IF present = {} THEN NULL
           ELSE findChild(heap[ret.node],
                          CHOOSE b \in present : \A x \in present : b <= x)

\* C21: when a key is inserted while a key that is a strict prefix of it, or
\* of which it is a strict prefix, has been inserted before, the call
\* completes without a panic, both keys are stored afterwards, and the
\* shorter one is the inner leaf of an inner node whose path and prefix spell
\* exactly that key.
C21_PrefixPairStored ==
  [][ret'.op = "Txn.Insert" =>
       \A k2 \in DOMAIN want.txn :
         (k2 # ret'.key /\ (isPrefix(k2, ret'.key) \/ isPrefix(ret'.key, k2))) =>
           /\ ~ret'.panic
           /\ {k2, ret'.key} \subseteq storedKeys(heap', txn'.root)
           /\ \E short \in {IF Len(k2) < Len(ret'.key) THEN k2 ELSE ret'.key} :
                \E q \in places(heap', txn'.root) :
                  q.inner /\ q.path = short /\ heap'[q.node].key = short]_vars

\* C22: byte 0x00 is treated like any other byte.  Two clients make the same
\* sequence of Tree.Txn, Txn.Insert and Txn.Commit calls, the twin with 0x01
\* for every 0x00 in its keys (0x01 keeps the order of 0x00 against 0x02, the
\* other byte used): every call returns the same (oldValue, replaced) and
\* panics in the one if and only if it panics in the other, and the tree of
\* the twin has the shape of the tree of the first with 0x00 renamed to 0x01.
\* In particular, after "\x00\x00" and "\x00" were inserted, in either order,
\* both keys are stored.
C22_NulByteLikeAnyOther ==
  /\ ret.old = want.twin.old /\ ret.ok = want.twin.ok
  /\ ret.panic = want.twin.panic
  /\ renShape(shape(heap, txn.root)) = shape(want.twin.heap, want.twin.txn.root)
  /\ (ret.op = "Txn.Insert" /\ DOMAIN want.txn = {<<0>>, <<0, 0>>}
        /\ want.trees = {<<New, Empty>>} /\ Len(heap) = 3) =>
       {<<0>>, <<0, 0>>} \subseteq storedKeys(heap, txn.root)

\* "\x00" was inserted after "\x00\x00" and is the inner leaf of a node4 with
\* prefix "\x00" that has "\x00\x00" under edge byte 0x00; the twin has the
\* same with 0x01
C22_Witness ==
  /\ ret.op = "Txn.Insert" /\ ret.key = <<0>> /\ ~ret.panic
  /\ DOMAIN want.txn = {<<0>>, <<0, 0>>}
  /\ heap[txn.root].typ = typNode4
  /\ prefix(heap, heap[txn.root]) = <<0>>
  /\ heap[heap[txn.root].leaf].key = <<0>>
  /\ heap[findChild(heap[txn.root], 0)].key = <<0, 0>>
  /\ storedKeys(want.twin.heap, want.twin.txn.root) = {<<1>>, <<1, 1>>}
\* C23: shape changes do not oscillate on adjacent add/remove pairs: when an
\* addChild has changed the shape of a node, the removeChild that follows it
\* leaves the shape as it is.
C23_NoOscillation ==
  (ret.op = "removeChild" /\ ret.pair /\ ~ret.panic) => ret.typ = ret.from

\* C23 as the code has it: a removeChild that follows an addChild from a full
\* node4 to a node16 and removes a byte the node16 holds returns a node4
\* again, so the shape changes on both calls of the pair.
C23_Node4PairOscillates ==
  (ret.op = "removeChild" /\ ret.pair /\ ret.from = typNode16 /\ ret.found)
    => (~ret.panic /\ ret.typ = typNode4)

C23_Witness ==
  /\ ret.op = "removeChild" /\ ret.pair /\ ret.from = typNode16 /\ ret.found
  /\ ret.typ = typNode4 /\ ret.nChildren = 4

\* C24: after a Txn.Insert call the leaves reachable from the transaction
\* root hold exactly the keys inserted so far, one leaf per key, each with the
\* value inserted last for it.
C24_LeavesAreInsertedKeys ==
  ret.op = "Txn.Insert" =>
    /\ ~ret.panic
    /\ content(heap, txn.root) = {<<k, want.txn[k]>> : k \in DOMAIN want.txn}
    /\ Cardinality({a \in Reach(heap, txn.root) : heap[a].typ = typLeaf})
         = Cardinality(DOMAIN want.txn)

\* C25: in the tree of the transaction, the bytes on the path to a leaf
\* (each inner node's prefix, then the edge byte taken) are a prefix of the
\* leaf's key, and the key of an inner leaf is exactly the path up to and
\* including the prefix of the node that holds it.
C25_PathsSpellKeys ==
  \A q \in places(heap, txn.root) :
    heap[q.node].typ = typLeaf =>
      IF q.inner THEN heap[q.node].key = q.path
      ELSE isPrefix(q.path, heap[q.node].key)

\* C26: a Txn.Insert call that reaches, at depth d, an inner node whose
\* prefix matches the rest of the key for lcp < len(prefix) bytes only puts in
\* its place a new node4 with prefix k[d..d+lcp], which holds the original
\* node with its prefix left-trimmed by lcp under edge byte prefix[lcp], and
\* the new leaf under edge byte k[d+lcp], or as its inner leaf when
\* d+lcp = len(k); at every depth d.
C26_PrefixSplit ==
  [][ret'.op = "Txn.Insert" =>
       \A sp \in {insertPoint(heap, txn.root, ret'.key, 0)} :
         sp.at = "split" =>
           /\ ~ret'.panic
           /\ \E q \in places(heap', txn'.root) : \E s \in {heap'[q.node]} :
                /\ ~q.inner /\ q.node > Len(heap) /\ s.typ = typNode4
                /\ Len(q.path) = sp.d
                /\ prefix(heap', s) = Slice(ret'.key, sp.d, sp.d + sp.lcp)
                /\ \E o \in {findChild(s, At(prefix(heap, heap[sp.node]), sp.lcp))} :
                     /\ o # NULL
                     /\ heap'[o].typ = heap[sp.node].typ
                     /\ edges(heap'[o]) = edges(heap[sp.node])
                     /\ heap'[o].leaf = heap[sp.node].leaf
                     /\ prefix(heap', heap'[o])
                          = Slice(prefix(heap, heap[sp.node]), sp.lcp,
                                  Len(prefix(heap, heap[sp.node])))
                /\ \E l \in {IF sp.d + sp.lcp = Len(ret'.key) THEN s.leaf
                              ELSE findChild(s, At(ret'.key, sp.d + sp.lcp))} :
                     /\ l # NULL /\ heap'[l].typ = typLeaf
                     /\ heap'[l].key = ret'.key /\ heap'[l].value = ret'.val]_vars

\* C27: a Txn.Insert call that reaches, at depth d, a leaf with another key,
\* the two keys sharing L <= maxPrefixLen bytes from d on, puts in its place a
\* new node4 with prefix k[d..d+L]; the existing leaf stays as it is, with its
\* identifier, and is not discarded; each of the two leaves is the inner leaf
\* of the node4 if its key has length d+L and sits under edge byte key[d+L]
\* otherwise; and the call reports no replaced value.
C27_LeafSplit ==
  [][ret'.op = "Txn.Insert" =>
       \A ip \in {insertPoint(heap, txn.root, ret'.key, 0)} :
         (ip.at = "leaf" /\ heap[ip.node].key # ret'.key /\ ip.d <= Len(heap[ip.node].key)) =>
           \A L \in {longestPrefix(Slice(heap[ip.node].key, ip.d, Len(heap[ip.node].key)),
                                   Slice(ret'.key, ip.d, Len(ret'.key)))} :
             L <= maxPrefixLen =>
               /\ ~ret'.panic /\ ~ret'.ok /\ ret'.old = NoValue
               /\ heap'[ip.node] = heap[ip.node]
               /\ heap[ip.node].id \notin txn'.mutateSet
               /\ \E q \in places(heap', txn'.root) : \E s \in {heap'[q.node]} :
                    /\ ~q.inner /\ q.node > Len(heap) /\ s.typ = typNode4
                    /\ Len(q.path) = ip.d
                    /\ prefix(heap', s) = Slice(ret'.key, ip.d, ip.d + L)
                    /\ ip.node = (IF Len(heap[ip.node].key) = ip.d + L THEN s.leaf
                                  ELSE findChild(s, At(heap[ip.node].key, ip.d + L)))
                    /\ \E l \in {IF Len(ret'.key) = ip.d + L THEN s.leaf
                                  ELSE findChild(s, At(ret'.key, ip.d + L))} :
                         /\ l # NULL /\ l > Len(heap) /\ heap'[l].typ = typLeaf
                         /\ heap'[l].key = ret'.key /\ heap'[l].value = ret'.val]_vars

\* C28: in the tree of the transaction the kind of every inner node agrees
\* with the number of its children: at most 4 in a node4, 5 to 16 in a
\* node16, 17 to 48 in a node48, 49 to 256 in a node256.
C28_KindMatchesCount ==
  \A a \in Reach(heap, txn.root) :
    CASE heap[a].typ = typNode4 -> heap[a].nChildren <= 4
      [] heap[a].typ = typNode16 -> heap[a].nChildren \in 5..16
      [] heap[a].typ = typNode48 -> heap[a].nChildren \in 17..48
      [] heap[a].typ = typNode256 -> Cardinality(edges(heap[a])) \in 49..256
      [] OTHER -> TRUE

\* C29: a call that changes the shape of a node (grow from node4 to node16,
\* node16 to node48, node48 to node256; shrink from node16 to node4, node48
\* to node16, node256 to node48) returns a node with the prefix length, the
\* prefix bytes and the inner leaf of the node it was made on.
C29_ShapeChangeKeepsHeader ==
  [][(ret'.op \in {"addChild", "removeChild"} /\ ~ret'.panic /\ ret'.typ # ret'.from) =>
       /\ heap'[ret'.node].prefixLen = heap[ret.node].prefixLen
       /\ heap'[ret'.node].prefix = heap[ret.node].prefix
       /\ heap'[ret'.node].leaf = heap[ret.node].leaf]_vars

\* C30: once Commit has returned a tree, a Txn.Insert on the same
\* transaction changes no field of any node reachable from a committed tree,
\* and so none of its keys and values.
C30_CommittedTreeFrozen ==
  [][(txn.state = "committed" /\ ret'.op = "Txn.Insert") =>
       \A t \in trees : \A a \in Reach(heap, t.root) : heap'[a] = heap[a]]_vars

\* C31: the results (old value, replaced) of every Txn.Insert call and the
\* set of keys stored afterwards are the same for keys whose shared prefix is
\* longer than the prefix array and for the same keys with the shared prefix
\* cut down to fit it.
C31_PrefixCapacityUnseen ==
  ret.op = "Txn.Insert" =>
    /\ ret.old = want.twin.old /\ ret.ok = want.twin.ok
    /\ ret.panic = want.twin.panic
    /\ {capKey(k) : k \in storedKeys(heap, txn.root)}
         = storedKeys(want.twin.heap, want.twin.txn.root)

\* C32: setPrefix(bytes) stores the first min(len(bytes), maxPrefixLen) bytes
\* in the prefix array and sets prefixLen to len(bytes), also when that is
\* more than maxPrefixLen; seen on the node4 that Txn.Insert makes where it
\* reaches a leaf with another key, whose prefix is set to the L bytes the
\* two keys share from there.
C32_SetPrefixFullLength ==
  [][ret'.op = "Txn.Insert" =>
       \A ip \in {insertPoint(heap, txn.root, ret'.key, 0)} :
         (ip.at = "leaf" /\ heap[ip.node].key # ret'.key /\ ip.d <= Len(heap[ip.node].key)) =>
           \A L \in {longestPrefix(Slice(heap[ip.node].key, ip.d, Len(heap[ip.node].key)),
                                   Slice(ret'.key, ip.d, Len(ret'.key)))} :
             \E a \in (Len(heap) + 1)..Len(heap') :
               /\ heap'[a].typ = typNode4
               /\ heap'[a].prefixLen = L
               /\ Slice(heap'[a].prefix, 0, min(L, maxPrefixLen))
                    = Slice(ret'.key, ip.d, ip.d + min(L, maxPrefixLen))]_vars

C34_Node48Dense ==
  heap[ret.node].typ = typNode48 =>
    \A n \in {heap[ret.node]} :
      /\ {At(n.index, b) : b \in {x \in 0..255 : At(n.index, x) > 0}} = 1..n.nChildren
      /\ Cardinality({x \in 0..255 : At(n.index, x) > 0}) = n.nChildren
      /\ \A i \in 0..47 : (At(n.children, i) # NULL) <=> (i < n.nChildren)

\* C35: for all four shapes, removeChild(c) and replaceChild(c, child) with
\* a byte c the node has no child for return the same node, with its child
\* count, its index and its children as they were.
C35_AbsentByteNoOp ==
  [][(ret'.op \in {"removeChild", "replaceChild"} /\ ~ret'.found) =>
       /\ ~ret'.panic /\ ret'.node = ret.node
       /\ heap'[ret.node].nChildren = heap[ret.node].nChildren
       /\ heap'[ret.node].index = heap[ret.node].index
       /\ heap'[ret.node].children = heap[ret.node].children]_vars

\* C36: an addChild or removeChild call that returns a node of another
\* shape returns a newly allocated node with a fresh identifier and leaves
\* every field of the node it was made on as it was; a call that returns a
\* node of the same shape returns the very same node, with its identifier.
C36_ShapeChangeAllocates ==
  [][(ret'.op \in {"addChild", "removeChild"} /\ ~ret'.panic) =>
       IF ret'.typ # ret'.from
       THEN /\ ret'.node > Len(heap)
            /\ \A a \in 1..Len(heap) : heap'[ret'.node].id # heap[a].id
            /\ heap'[ret.node] = heap[ret.node]
       ELSE /\ ret'.node = ret.node
            /\ heap'[ret.node].id = heap[ret.node].id]_vars

\* a node16 returned by the grow of a full node4, which is still in the heap
\* with its four children
C36_Witness ==
  /\ ret.op = "addChild" /\ ret.from = typNode4 /\ ret.typ = typNode16
  /\ ret.nChildren = 5 /\ ret.c = 0
  /\ \E a \in innerNodes(heap) :
       a < ret.node /\ heap[a].typ = typNode4 /\ heap[a].nChildren = 4
         /\ heap[a].id < heap[ret.node].id

\* C37: copy(txn) of an inner node of any shape returns a node with a new
\* identifier and the kind, child count, prefix length, prefix bytes, inner
\* leaf, index and child references of the original, and leaves the original
\* (and every other node) as it was.
C37_CopySameContent ==
  [][ret'.op = "copy" =>
       /\ ret'.node > Len(heap)
       /\ \A a \in 1..Len(heap) : heap'[ret'.node].id # heap[a].id /\ heap'[a] = heap[a]
       /\ heap'[ret'.node] = [heap[ret.node] EXCEPT !.id = heap'[ret'.node].id]]_vars

\* the copy of a node48 with 16 children, a prefix and an inner leaf
C37_Witness ==
  /\ ret.op = "copy" /\ ret.typ = typNode48 /\ ret.nChildren = 16
  /\ heap[ret.node].prefixLen = 1 /\ heap[ret.node].leaf # NULL
  /\ findChild(heap[ret.node], 90) # NULL

\* C38: within one transaction, whatever the inserts, each node of the source
\* snapshot is copied at most once, and a node created during the transaction
\* (identifier above maxSnapID) is never copied and never added to the discard
\* set: it is mutated in place.
C38_CopyOncePerTxn ==
  /\ \A i, j \in DOMAIN txn.copied : i # j => txn.copied[i] # txn.copied[j]
  /\ \A i \in DOMAIN txn.copied :
       /\ txn.copied[i] <= txn.maxSnapID
       /\ \E a \in innerNodes(heap) : heap[a].id = txn.copied[i]
  /\ \A id \in txn.mutateSet : id <= txn.maxSnapID
  /\ Cardinality({a \in innerNodes(heap) : \E b \in innerNodes(heap) :
                    /\ b < a /\ heap[b].id <= txn.maxSnapID /\ heap[a].id > txn.maxSnapID
                    /\ heap[a] = [heap[b] EXCEPT !.id = heap[a].id]}) <= Len(txn.copied)

\* a transaction on a committed tree that copied the root of its snapshot in
\* one insert and, in a later insert, replaced a child of the copy in place
C38_Witness ==
  /\ txn.state = "open" /\ txn.maxSnapID > 0 /\ Len(txn.copied) = 1
  /\ ret.op = "Txn.Insert" /\ ret.ok /\ ~ret.panic
  /\ heap[txn.root].id > txn.maxSnapID /\ heap[txn.root].nChildren = 2
  /\ heap[txn.snap].id = txn.copied[1] /\ heap[txn.snap].nChildren = 1
  /\ Cardinality(txn.mutateSet) = 2

====
